---- MODULE Spec2Model ----
(***************************************************************************)
(* Materialize: the Ship step (ShipStep.tsx) and the Printful client       *)
(* (printfulService.ts).                                                    *)
(*                                                                          *)
(* The browser is single-threaded: every action below is one event-loop    *)
(* turn -- a user event, a timer, or the continuation of an async function *)
(* from one await to the next -- and the React state updates made in that  *)
(* turn are committed together before the next turn starts.  A state       *)
(* update made by a continuation whose component instance has been         *)
(* unmounted is dropped by React; the continuation itself goes on running. *)
(***************************************************************************)
EXTENDS Integers, Sequences, FiniteSets, TLC

\* ------------------------------------------------------------------ bounds
\* Preparations (runs of initPrintful) started in one behaviour.
MaxRuns == 2
\* Source images in the gallery that the selected product can point at.
MaxImages == 1
\* Order ids the upstream can hand out for a draft.
MaxOrderId == 1
\* Non-terminal poll answers (pending, or a non-2xx status) the upstream gives
\* in one behaviour of the orchestrator before it must answer with something else.
MaxPending == 1

\* ------------------------------------------------------ program constants
\* printfulService.ts:84
maxAttempts == 30

Runs == 1..MaxRuns
Images == 1..MaxImages
OrderIds == 1..MaxOrderId

\* "null" / "undefined" of an optional value, and a present value.
Null == << >>
Some(x) == << x >>

VARIABLES
    \* App -> ShipStep
    mounted,            \* a ShipStep instance is on screen
    sourceImage,        \* prop sourceImage: 0 = null, else the image id
    \* ShipStep useState cells
    isOrdered, isConfirmed, isProcessing, isConfirming, isPreparing,
    isConnected, publicImageUrl, error, orderDetails,
    mockupUrls, isGeneratingMockups, shippingRates, estimatedCosts,
    \* async functions in flight
    run,                \* run[r]: one call of initPrintful
    nruns,              \* calls of initPrintful started so far
    mk,                 \* mk[r]: the call of generatePrintfulMockups made by run r
    checkout,           \* handleCheckout: "idle" | "draft" | "sim"
    draftUrl,           \* the hosted URL in the pending createDraftOrder request
    confirmReq,         \* handleConfirmOrder: Null, or the order id in its pending request
    \* the upstream
    pendingLeft,        \* non-terminal poll answers the upstream may still give
    \* one request followed through the client functions, the dev-server proxy
    \* and the /api/host-image endpoint
    svc

orderVars == << isOrdered, isConfirmed, isProcessing, isConfirming, orderDetails >>
prepVars == << isPreparing, isConnected, publicImageUrl, shippingRates,
               estimatedCosts >>
mockVars == << mockupUrls, isGeneratingMockups >>
flowVars == << checkout, draftUrl, confirmReq >>
shipVars == << mounted, sourceImage, isOrdered, isConfirmed, isProcessing, isConfirming,
               isPreparing, isConnected, publicImageUrl, error, orderDetails,
               mockupUrls, isGeneratingMockups, shippingRates, estimatedCosts,
               run, nruns, mk, checkout, draftUrl, confirmReq, pendingLeft >>
vars == << shipVars, svc >>

\* ------------------------------------------------------------ environment
\* What a fetch can come back with, as the client code tells them apart:
\* a 2xx response, a non-2xx response, or a rejected fetch / unreadable body.
Outcomes == {"ok", "http_error", "network_error"}

\* A mockup as the mockup generator reports it (types.ts PrintfulMockup).
Mockup1 == [placement |-> "front", variant_id |-> 4012, mockup_url |-> "https://h/mock1.png"]
Mockup2 == [placement |-> "back", variant_id |-> 4012, mockup_url |-> "https://h/mock2.png"]
\* result.mockups of a completed task: absent (Null) or a list.
MockupBodies == { Null, Some(<< Mockup2, Mockup1 >>) }

\* What one poll can come back with.
PollStatuses == {"pending", "completed", "failed", "http_error", "network_error", "bad_body"}

\* Shipping rates of a 2xx answer of /shipping/rates (result absent, or a list).
Rate1 == [id |-> "STANDARD", name |-> "Standard", rate |-> 499, currency |-> "USD",
          minDeliveryDays |-> 3, maxDeliveryDays |-> 5]
RateBodies == { Null, Some(<< Rate1 >>) }

\* result.costs of a 2xx answer of /orders/estimate-costs.
Costs1 == [subtotal |-> 2999, shipping |-> 499, total |-> 3498, currency |-> "USD"]

\* result of a 2xx answer of POST /orders: absent, or an order whose id may be
\* missing (id 0).
DraftBodies == { Null } \cup { Some([id |-> k, costs |-> Costs1]) : k \in 0..MaxOrderId }

\* A call of initPrintful: where it stands, whether its instance is still
\* mounted, the image it was started for, how its probe came back and what
\* checkPrintfulConnection made of it, and what hostImage returned.
NoRun == [pc |-> "idle", live |-> FALSE, src |-> 0, probe |-> "none",
          connected |-> "unknown", imageUrl |-> 0, hostFailed |-> FALSE]
\* A call of generatePrintfulMockups: where it stands, its argument imageUrl,
\* its loop variable i, and what it has done and seen so far: timer waits
\* completed, poll requests issued, the last poll answer and (for a completed
\* one) its result.mockups.
NoCall == [pc |-> "none", url |-> 0, i |-> 0, polls |-> 0, waits |-> 0,
           last |-> "none", body |-> Null, result |-> << >>]

\* No request is being followed.
NoSvc == [phase |-> "idle"]

\* ------------------------------------------------------------------- Init
\* useState initial values (ShipStep.tsx:39-56); nothing mounted yet.
InitCells ==
    /\ isOrdered = FALSE /\ isConfirmed = FALSE /\ isProcessing = FALSE
    /\ isConfirming = FALSE /\ isPreparing = FALSE /\ isConnected = FALSE
    /\ publicImageUrl = 0 /\ error = "none" /\ orderDetails = Null
    /\ mockupUrls = << >> /\ isGeneratingMockups = FALSE
    /\ shippingRates = << >> /\ estimatedCosts = Null

Init ==
    /\ mounted = FALSE
    /\ sourceImage = 0
    /\ InitCells
    /\ run = [r \in Runs |-> NoRun]
    /\ nruns = 0
    /\ mk = [r \in Runs |-> NoCall]
    /\ checkout = "idle"
    /\ draftUrl = 0
    /\ confirmReq = Null
    /\ pendingLeft = MaxPending
    /\ svc = NoSvc


\* --------------------------------------------------------- Printful client
\* Mutant: the fetch of the probe is not wrapped in try/catch.
checkPrintfulConnection_NoCatch(o) ==
    IF o = "network_error" THEN "throws"
    ELSE IF o = "ok" THEN "true" ELSE "false"

\* checkPrintfulConnection: try { return response.ok } catch { return false }.
\* What the caller gets: "true", "false", or "throws" if an exception left it.
checkPrintfulConnection(o) ==
    IF o = "network_error" THEN "false"
    ELSE IF o = "ok" THEN "true" ELSE "false"

\* hostImage: throws unless the response is 2xx with a readable body.
hostImageThrows(o) == o # "ok"
\* The URL the hosting backend hands out for the upload made by run r: every
\* upload gets its own file name (vite.config.ts:35), so its own URL.
HostedUrl(r) == r

\* estimateShippingRates: (data.result || []).map(...).
RatesOf(body) == IF body = Null THEN << >> ELSE body[1]

\* Mutant: the loop runs one attempt too many.
LoopCond_OffByOne(i) == i <= maxAttempts

\* generatePrintfulMockups, the loop head: for (let i = 0; i < maxAttempts; i++).
LoopCond(i) == i < maxAttempts

\* Mutant: every entry of the result is the first mockup's URL.
MockupUrlsOf_FirstOnly(body) ==
    LET mockups == IF body = Null THEN << >> ELSE body[1]
    IN  [n \in 1..Len(mockups) |-> mockups[1].mockup_url]

\* generatePrintfulMockups on a completed task:
\* (pollData.result.mockups || []).map(m => m.mockup_url).
MockupUrlsOf(body) ==
    LET mockups == IF body = Null THEN << >> ELSE body[1]
    IN  [n \in 1..Len(mockups) |-> mockups[n].mockup_url]

\* Mutant: a failed status is treated like a pending one.
PollStep_FailedContinues(st) ==
    CASE st = "completed" -> "return"
      [] st \in {"network_error", "bad_body"} -> "propagate"
      [] OTHER -> "continue"

\* What one poll answer does to the loop: "return", "throw" (status failed),
\* "propagate" (the awaited fetch or json() threw) or "continue".
PollStep(st) ==
    CASE st = "completed" -> "return"
      [] st = "failed" -> "throw"
      [] st \in {"network_error", "bad_body"} -> "propagate"
      [] OTHER -> "continue"

\* ------------------------------------------------------------- the effect
\* useEffect(() => { initPrintful() }, [sourceImage, selectedProduct]) up to its
\* first await.  selectedProduct is never null while the Ship step is shown.
\* Variant of StartsRun: initPrintful without its guard.
StartsRun_Always(img) == TRUE

StartsRun(img) == img # 0

Effect(img) ==
    IF StartsRun(img)
    THEN /\ nruns < MaxRuns
         /\ nruns' = nruns + 1
         /\ run' = [run EXCEPT ![nruns + 1] =
                        [NoRun EXCEPT !.pc = "check", !.live = TRUE, !.src = img]]
         /\ isPreparing' = TRUE
         /\ error' = "none"
    ELSE /\ UNCHANGED << nruns, run, isPreparing, error >>

\* The user opens the Ship step: a fresh ShipStep instance, then its effect.
MountStep(img) ==
    /\ ~mounted
    /\ mounted' = TRUE
    /\ sourceImage' = img
    /\ Effect(img)
    /\ UNCHANGED << orderVars, isConnected, publicImageUrl, shippingRates,
                    estimatedCosts, mockVars, mk, flowVars, pendingLeft >>

\* MountStep, with no request followed on the side.
Mount(img) == MountStep(img) /\ UNCHANGED svc

\* The user leaves the Ship step: the instance and its state cells are gone.
\* Nothing is cancelled: the effect returns no cleanup function, and the answer
\* to a request of handleCheckout or handleConfirmOrder still under way only
\* sets state of the instance that is gone.
UnmountStep ==
    /\ mounted
    /\ mounted' = FALSE
    /\ sourceImage' = 0
    /\ isOrdered' = FALSE /\ isConfirmed' = FALSE /\ isProcessing' = FALSE
    /\ isConfirming' = FALSE /\ isPreparing' = FALSE /\ isConnected' = FALSE
    /\ publicImageUrl' = 0 /\ error' = "none" /\ orderDetails' = Null
    /\ mockupUrls' = << >> /\ isGeneratingMockups' = FALSE
    /\ shippingRates' = << >> /\ estimatedCosts' = Null
    /\ run' = [r \in Runs |-> [run[r] EXCEPT !.live = FALSE]]
    /\ checkout' = "idle" /\ draftUrl' = 0 /\ confirmReq' = Null
    /\ UNCHANGED << nruns, mk, pendingLeft >>

\* UnmountStep, with no request followed on the side.
Unmount == UnmountStep /\ UNCHANGED svc

\* A render started in the Render step finishes while the Ship step is shown:
\* App.handleProductRendered selects the new product, the props change and the
\* effect runs again in the same instance.
PropsChangeStep(img) ==
    /\ mounted
    /\ sourceImage' = img
    /\ Effect(img)
    /\ UNCHANGED << mounted, orderVars, isConnected, publicImageUrl, shippingRates,
                    estimatedCosts, mockVars, mk, flowVars, pendingLeft >>

\* PropsChangeStep, with no request followed on the side.
PropsChange(img) == PropsChangeStep(img) /\ UNCHANGED svc

\* ------------------------------------------------------------ initPrintful
\* Mutant: the early return of the offline branch is missing.
OfflineReturn_Never(connected) == FALSE

\* if (!connected) { setError(...); return; }
OfflineReturn(connected) == ~connected

\* const connected = await checkPrintfulConnection(); ... up to await hostImage.
CheckRespond(r, o) ==
    LET res == checkPrintfulConnection(o)
        connected == res = "true"
        live == run[r].live
    IN
    /\ run[r].pc = "check"
    /\ IF res = "throws"
       THEN \* the outer catch and finally
            /\ run' = [run EXCEPT ![r].pc = "done", ![r].probe = o]
            /\ error' = IF live THEN "host" ELSE error
            /\ isPreparing' = IF live THEN FALSE ELSE isPreparing
            /\ UNCHANGED isConnected
       ELSE /\ isConnected' = IF live THEN connected ELSE isConnected
            /\ IF OfflineReturn(connected)
               THEN /\ run' = [run EXCEPT ![r].pc = "done", ![r].probe = o,
                                          ![r].connected = res]
                    /\ error' = IF live THEN "offline" ELSE error
                    /\ isPreparing' = IF live THEN FALSE ELSE isPreparing
               ELSE /\ run' = [run EXCEPT ![r].pc = "host", ![r].probe = o,
                                          ![r].connected = res]
                    /\ UNCHANGED << error, isPreparing >>
    /\ UNCHANGED << mounted, sourceImage, orderVars, publicImageUrl, shippingRates,
                    estimatedCosts, mockVars, nruns, mk, flowVars, pendingLeft >>
    /\ UNCHANGED svc

\* const imageUrl = await hostImage(...); ... up to await estimateShippingRates,
\* with the synchronous start of generatePrintfulMockups (its create-task fetch);
\* or the outer catch and finally when hostImage throws.
HostRespondStep(r, o) ==
    LET live == run[r].live
        imageUrl == HostedUrl(r)
    IN
    /\ run[r].pc = "host"
    /\ IF hostImageThrows(o)
       THEN /\ run' = [run EXCEPT ![r].pc = "done", ![r].hostFailed = TRUE]
            /\ error' = IF live THEN "host" ELSE error
            /\ isPreparing' = IF live THEN FALSE ELSE isPreparing
            /\ UNCHANGED << publicImageUrl, isGeneratingMockups, mk >>
       ELSE /\ run' = [run EXCEPT ![r].pc = "ship", ![r].imageUrl = imageUrl]
            /\ publicImageUrl' = IF live THEN imageUrl ELSE publicImageUrl
            /\ isGeneratingMockups' = IF live THEN TRUE ELSE isGeneratingMockups
            /\ mk' = [mk EXCEPT ![r] = [NoCall EXCEPT !.pc = "create", !.url = imageUrl]]
            /\ UNCHANGED << error, isPreparing >>
    /\ UNCHANGED << mounted, sourceImage, orderVars, isConnected, shippingRates,
                    estimatedCosts, mockupUrls, nruns, flowVars, pendingLeft >>

\* HostRespondStep, with no request followed on the side.
HostRespond(r, o) == HostRespondStep(r, o) /\ UNCHANGED svc

\* Mutant: the mockup call is awaited before the estimates start.
ShipRespond_AfterMockups(r, o, body) ==
    /\ run[r].pc = "ship"
    /\ mk[r].pc \notin {"create", "timer", "poll"}
    /\ run' = [run EXCEPT ![r].pc = "cost"]
    /\ shippingRates' = IF run[r].live /\ o = "ok" THEN RatesOf(body) ELSE shippingRates
    /\ UNCHANGED << mounted, sourceImage, orderVars, isPreparing, isConnected,
                    publicImageUrl, error, estimatedCosts, mockVars,
                    nruns, mk, flowVars, pendingLeft >>
    /\ UNCHANGED svc

\* Mutant: the shipping estimate has no try/catch of its own, so its failure
\* reaches the outer catch and finally.
ShipRespond_FailurePropagates(r, o, body) ==
    /\ run[r].pc = "ship"
    /\ IF o = "ok"
       THEN /\ run' = [run EXCEPT ![r].pc = "cost"]
            /\ shippingRates' = IF run[r].live THEN RatesOf(body) ELSE shippingRates
            /\ UNCHANGED << error, isPreparing >>
       ELSE /\ run' = [run EXCEPT ![r].pc = "done"]
            /\ error' = IF run[r].live THEN "host" ELSE error
            /\ isPreparing' = IF run[r].live THEN FALSE ELSE isPreparing
            /\ UNCHANGED shippingRates
    /\ UNCHANGED << mounted, sourceImage, orderVars, isConnected,
                    publicImageUrl, estimatedCosts, mockVars,
                    nruns, mk, flowVars, pendingLeft >>
    /\ UNCHANGED svc

\* const rates = await estimateShippingRates(...); setShippingRates(rates), or
\* the inner catch; then up to await estimateOrderCosts.
ShipRespondStep(r, o, body) ==
    /\ run[r].pc = "ship"
    /\ run' = [run EXCEPT ![r].pc = "cost"]
    /\ shippingRates' = IF run[r].live /\ o = "ok" THEN RatesOf(body) ELSE shippingRates
    /\ UNCHANGED << mounted, sourceImage, orderVars, isPreparing, isConnected,
                    publicImageUrl, error, estimatedCosts, mockVars,
                    nruns, mk, flowVars, pendingLeft >>

\* ShipRespondStep, with no request followed on the side.
ShipRespond(r, o, body) == ShipRespondStep(r, o, body) /\ UNCHANGED svc

\* Variant of CostRespond: the flag is cleared only when the estimate succeeded.
CostRespond_NoFinally(r, o) ==
    /\ run[r].pc = "cost"
    /\ run' = [run EXCEPT ![r].pc = "done"]
    /\ estimatedCosts' = IF run[r].live /\ o = "ok" THEN Some(Costs1) ELSE estimatedCosts
    /\ isPreparing' = IF run[r].live /\ o = "ok" THEN FALSE ELSE isPreparing
    /\ UNCHANGED << mounted, sourceImage, orderVars, isConnected, publicImageUrl, error,
                    shippingRates, mockVars, nruns, mk, flowVars,
                    pendingLeft >>
    /\ UNCHANGED svc

\* const costs = await estimateOrderCosts(...); setEstimatedCosts(costs), or the
\* inner catch; then the outer finally.
CostRespond(r, o) ==
    /\ run[r].pc = "cost"
    /\ run' = [run EXCEPT ![r].pc = "done"]
    /\ estimatedCosts' = IF run[r].live /\ o = "ok" THEN Some(Costs1) ELSE estimatedCosts
    /\ isPreparing' = IF run[r].live THEN FALSE ELSE isPreparing
    /\ UNCHANGED << mounted, sourceImage, orderVars, isConnected, publicImageUrl, error,
                    shippingRates, mockVars, nruns, mk, flowVars,
                    pendingLeft >>
    /\ UNCHANGED svc


\* ------------------------------------------------- generatePrintfulMockups
\* Mutant: the catch callback also empties the mockup list.
Settle_ClearsOnFailure(r, outcome, urls) ==
    /\ mockupUrls' = IF run[r].live THEN urls ELSE mockupUrls
    /\ isGeneratingMockups' = IF run[r].live THEN FALSE ELSE isGeneratingMockups

\* Variant of Settle: the indicator is cleared only when URLs were returned.
Settle_KeepsIndicatorOnFailure(r, outcome, urls) ==
    /\ mockupUrls' = IF run[r].live /\ outcome = "returned" THEN urls ELSE mockupUrls
    /\ isGeneratingMockups' = IF run[r].live /\ outcome = "returned"
                              THEN FALSE ELSE isGeneratingMockups

\* The promise of call r settles with `outcome`; the callbacks ShipStep chained
\* on it run in the same turn: .then(urls => setMockupUrls(urls)), .catch(warn),
\* .finally(() => setIsGeneratingMockups(false)).
Settle(r, outcome, urls) ==
    /\ mockupUrls' = IF run[r].live /\ outcome = "returned" THEN urls ELSE mockupUrls
    /\ isGeneratingMockups' = IF run[r].live THEN FALSE ELSE isGeneratingMockups

\* const taskRes = await fetch(create-task); throw unless ok; read the task key;
\* enter the loop and start the first timer.
MockCreateRespond(r, o) ==
    /\ mk[r].pc = "create"
    /\ IF o = "ok"
       THEN IF LoopCond(0)
            THEN /\ mk' = [mk EXCEPT ![r].pc = "timer"]
                 /\ UNCHANGED mockVars
            ELSE /\ mk' = [mk EXCEPT ![r].pc = "timeout"]
                 /\ Settle(r, "timeout", << >>)
       ELSE /\ mk' = [mk EXCEPT ![r].pc = "rejected"]
            /\ Settle(r, "rejected", << >>)
    /\ UNCHANGED << mounted, sourceImage, orderVars, prepVars, error, run, nruns,
                    flowVars, pendingLeft >>
    /\ UNCHANGED svc

\* Variant of MockTimer: the loop is entered even after the create-task request
\* was rejected.
MockTimer_AfterRejection(r) ==
    /\ mk[r].pc \in {"timer", "rejected"}
    /\ mk' = [mk EXCEPT ![r].pc = "poll", ![r].waits = @ + 1, ![r].polls = @ + 1]
    /\ UNCHANGED << mounted, sourceImage, orderVars, prepVars, error, mockVars, run,
                    nruns, flowVars, pendingLeft >>
    /\ UNCHANGED svc

\* await new Promise(resolve => setTimeout(resolve, 2000)) completes and the
\* poll request is issued.
MockTimer(r) ==
    /\ mk[r].pc = "timer"
    /\ mk' = [mk EXCEPT ![r].pc = "poll", ![r].waits = @ + 1, ![r].polls = @ + 1]
    /\ UNCHANGED << mounted, sourceImage, orderVars, prepVars, error, mockVars, run,
                    nruns, flowVars, pendingLeft >>
    /\ UNCHANGED svc

\* Variant of MockPollRespond: the next poll is issued at once, without the
\* timer wait at the head of the loop body.
MockPollRespond_NoWait(r, st, body) ==
    LET step == PollStep(st)
        next == mk[r].i + 1
        seen == [mk[r] EXCEPT !.last = st]
    IN
    /\ mk[r].pc = "poll"
    /\ st = "completed" \/ body = Null
    /\ CASE step = "return" ->
              /\ mk' = [mk EXCEPT ![r] = [seen EXCEPT !.pc = "returned", !.body = body,
                                                      !.result = MockupUrlsOf(body)]]
              /\ Settle(r, "returned", MockupUrlsOf(body))
              /\ UNCHANGED pendingLeft
         [] step = "throw" ->
              /\ mk' = [mk EXCEPT ![r] = [seen EXCEPT !.pc = "failed"]]
              /\ Settle(r, "failed", << >>)
              /\ UNCHANGED pendingLeft
         [] step = "propagate" ->
              /\ mk' = [mk EXCEPT ![r] = [seen EXCEPT !.pc = "threw"]]
              /\ Settle(r, "threw", << >>)
              /\ UNCHANGED pendingLeft
         [] OTHER ->
              /\ pendingLeft > 0
              /\ pendingLeft' = pendingLeft - 1
              /\ IF LoopCond(next)
                 THEN /\ mk' = [mk EXCEPT ![r] = [seen EXCEPT !.pc = "poll", !.i = next,
                                                           !.polls = @ + 1]]
                      /\ UNCHANGED mockVars
                 ELSE /\ mk' = [mk EXCEPT ![r] = [seen EXCEPT !.pc = "timeout", !.i = next]]
                      /\ Settle(r, "timeout", << >>)
    /\ UNCHANGED << mounted, sourceImage, orderVars, prepVars, error, run, nruns,
                    flowVars >>
    /\ UNCHANGED svc

\* The poll answers: the rest of the loop body, i++, the loop test, and either
\* the next timer or the end of the function.
MockPollRespond(r, st, body) ==
    LET step == PollStep(st)
        next == mk[r].i + 1
        seen == [mk[r] EXCEPT !.last = st]
    IN
    /\ mk[r].pc = "poll"
    /\ st = "completed" \/ body = Null
    /\ CASE step = "return" ->
              /\ mk' = [mk EXCEPT ![r] = [seen EXCEPT !.pc = "returned", !.body = body,
                                                      !.result = MockupUrlsOf(body)]]
              /\ Settle(r, "returned", MockupUrlsOf(body))
              /\ UNCHANGED pendingLeft
         [] step = "throw" ->
              /\ mk' = [mk EXCEPT ![r] = [seen EXCEPT !.pc = "failed"]]
              /\ Settle(r, "failed", << >>)
              /\ UNCHANGED pendingLeft
         [] step = "propagate" ->
              /\ mk' = [mk EXCEPT ![r] = [seen EXCEPT !.pc = "threw"]]
              /\ Settle(r, "threw", << >>)
              /\ UNCHANGED pendingLeft
         [] OTHER ->
              /\ pendingLeft > 0
              /\ pendingLeft' = pendingLeft - 1
              /\ IF LoopCond(next)
                 THEN /\ mk' = [mk EXCEPT ![r] = [seen EXCEPT !.pc = "timer", !.i = next]]
                      /\ UNCHANGED mockVars
                 ELSE /\ mk' = [mk EXCEPT ![r] = [seen EXCEPT !.pc = "timeout", !.i = next]]
                      /\ Settle(r, "timeout", << >>)
    /\ UNCHANGED << mounted, sourceImage, orderVars, prepVars, error, run, nruns,
                    flowVars >>
    /\ UNCHANGED svc

\* ----------------------------------------------------------------- display
\* selectedProduct.previewUrl, the preview rendered locally in the Render step.
LocalPreview == "local-preview"

\* const previewImage = mockupUrls.length > 0 ? mockupUrls[0] : selectedProduct?.previewUrl
previewImage == IF Len(mockupUrls) > 0 THEN mockupUrls[1] ELSE LocalPreview

\* const cheapestRate = shippingRates.length > 0 ? shippingRates[0] : null
cheapestRate == IF Len(shippingRates) > 0 THEN Some(shippingRates[1]) ELSE Null

\* displayShipping: the estimated shipping cost, else the first rate, else '$4.99'
\* (amounts in cents).
displayShipping ==
    IF estimatedCosts # Null
    THEN << estimatedCosts[1].currency, estimatedCosts[1].shipping >>
    ELSE IF cheapestRate # Null THEN << "$", cheapestRate[1].rate >>
    ELSE << "$", 499 >>

\* displayTotal: the estimated total, else a dash.
displayTotal ==
    IF estimatedCosts # Null
    THEN << estimatedCosts[1].currency, estimatedCosts[1].total >>
    ELSE << "-" >>

\* --------------------------------------------------------- handleCheckout
\* The submit button: disabled={isProcessing || isPreparing}; the form is on
\* screen only while !isOrdered.
SubmitEnabled == mounted /\ ~isOrdered /\ ~isProcessing /\ ~isPreparing

\* Mutant: the hosted URL is not tested.
UseRealOrder_ConnectedOnly == isConnected

\* if (isConnected && publicImageUrl && selectedProduct)
UseRealOrder == isConnected /\ publicImageUrl # 0

\* Mutant: the artwork is uploaded again for the order.
DraftUrlArg_Rehosted == publicImageUrl + MaxRuns

\* createDraftOrder(recipient, publicImageUrl, ...): the URL put in the order.
DraftUrlArg == publicImageUrl

\* handleCheckout up to its first await.
SubmitStep ==
    /\ SubmitEnabled
    /\ isProcessing' = TRUE
    /\ error' = "none"
    /\ IF UseRealOrder
       THEN /\ checkout' = "draft"
            /\ draftUrl' = DraftUrlArg
       ELSE /\ checkout' = "sim"
            /\ UNCHANGED draftUrl
    /\ UNCHANGED << mounted, sourceImage, isOrdered, isConfirmed, isConfirming,
                    orderDetails, prepVars, mockVars, run, nruns, mk, confirmReq,
                    pendingLeft >>

\* SubmitStep, with no request followed on the side.
Submit == SubmitStep /\ UNCHANGED svc

\* Mutant: a failed createDraftOrder is sent again from the catch block.
DraftRespond_RetriesOnFailure(o, body) ==
    /\ checkout = "draft"
    /\ IF o = "ok"
       THEN /\ checkout' = "idle"
            /\ draftUrl' = 0
            /\ isProcessing' = FALSE
            /\ orderDetails' = body
            /\ isOrdered' = TRUE
            /\ UNCHANGED error
       ELSE /\ body = Null
            /\ error' = "draft"
            /\ UNCHANGED << checkout, draftUrl, isProcessing, orderDetails, isOrdered >>
    /\ UNCHANGED << mounted, sourceImage, isConfirmed, isConfirming, prepVars, mockVars,
                    run, nruns, mk, confirmReq, pendingLeft >>
    /\ UNCHANGED svc

\* Mutant: setIsOrdered(true) sits in the finally block.
DraftRespond_OrderedOnFailure(o, body) ==
    /\ checkout = "draft"
    /\ checkout' = "idle"
    /\ draftUrl' = 0
    /\ isProcessing' = FALSE
    /\ isOrdered' = TRUE
    /\ IF o = "ok"
       THEN /\ orderDetails' = body
            /\ UNCHANGED error
       ELSE /\ body = Null
            /\ error' = "draft"
            /\ UNCHANGED orderDetails
    /\ UNCHANGED << mounted, sourceImage, isConfirmed, isConfirming, prepVars, mockVars,
                    run, nruns, mk, confirmReq, pendingLeft >>
    /\ UNCHANGED svc

\* const result = await createDraftOrder(...); setOrderDetails(result);
\* setIsOrdered(true); or catch; finally.
DraftRespond(o, body) ==
    /\ checkout = "draft"
    /\ checkout' = "idle"
    /\ draftUrl' = 0
    /\ isProcessing' = FALSE
    /\ IF o = "ok"
       THEN /\ orderDetails' = body
            /\ isOrdered' = TRUE
            /\ UNCHANGED error
       ELSE /\ body = Null
            /\ error' = "draft"
            /\ UNCHANGED << orderDetails, isOrdered >>
    /\ UNCHANGED << mounted, sourceImage, isConfirmed, isConfirming, prepVars, mockVars,
                    run, nruns, mk, confirmReq, pendingLeft >>
    /\ UNCHANGED svc

\* Mutant: the simulated branch stores a made-up order.
SimTimer_StoresOrder ==
    /\ checkout = "sim"
    /\ checkout' = "idle"
    /\ isProcessing' = FALSE
    /\ isOrdered' = TRUE
    /\ orderDetails' = Some([id |-> 1, costs |-> Costs1])
    /\ UNCHANGED << mounted, sourceImage, isConfirmed, isConfirming, error,
                    prepVars, mockVars, run, nruns, mk, draftUrl, confirmReq,
                    pendingLeft >>
    /\ UNCHANGED svc

\* The simulated branch: the 2 s timer fires; setIsOrdered(true); finally.
SimTimer ==
    /\ checkout = "sim"
    /\ checkout' = "idle"
    /\ isProcessing' = FALSE
    /\ isOrdered' = TRUE
    /\ UNCHANGED << mounted, sourceImage, isConfirmed, isConfirming, orderDetails, error,
                    prepVars, mockVars, run, nruns, mk, draftUrl, confirmReq,
                    pendingLeft >>
    /\ UNCHANGED svc

\* ----------------------------------------------------- handleConfirmOrder
\* Variant of ConfirmEnabled: the button stays enabled while confirming.
ConfirmEnabled_WhileConfirming ==
    mounted /\ isOrdered /\ orderDetails # Null /\ ~isConfirmed

\* The Confirm & Ship button: rendered on the ordered screen when
\* orderDetails && !isConfirmed, disabled={isConfirming}.
ConfirmEnabled ==
    mounted /\ isOrdered /\ orderDetails # Null /\ ~isConfirmed /\ ~isConfirming

\* Mutant: the guard only tests that an order is stored.
HasOrderId_AnyOrder(od) == od # Null

\* if (!orderDetails?.id) return;
HasOrderId(od) == od # Null /\ od[1].id # 0

\* handleConfirmOrder up to its await.
ConfirmClick ==
    /\ ConfirmEnabled
    /\ IF HasOrderId(orderDetails)
       THEN /\ isConfirming' = TRUE
            /\ error' = "none"
            /\ confirmReq' = Some(orderDetails[1].id)
       ELSE /\ UNCHANGED << isConfirming, error, confirmReq >>
    /\ UNCHANGED << mounted, sourceImage, isOrdered, isConfirmed, isProcessing,
                    orderDetails, prepVars, mockVars, run, nruns, mk, checkout,
                    draftUrl, pendingLeft >>
    /\ UNCHANGED svc

\* Mutant: setIsConfirmed(true) sits in the finally block.
ConfirmRespond_ConfirmsOnFailure(o, hasResult) ==
    /\ confirmReq # Null
    /\ confirmReq' = Null
    /\ isConfirming' = FALSE
    /\ isConfirmed' = TRUE
    /\ IF o = "ok"
       THEN /\ orderDetails' = IF hasResult
                               THEN Some([id |-> confirmReq[1], costs |-> Costs1])
                               ELSE Null
            /\ UNCHANGED error
       ELSE /\ ~hasResult
            /\ error' = "confirm"
            /\ UNCHANGED orderDetails
    /\ UNCHANGED << mounted, sourceImage, isOrdered, isProcessing, prepVars, mockVars,
                    run, nruns, mk, checkout, draftUrl, pendingLeft >>
    /\ UNCHANGED svc

\* Mutant: the catch block drops the stored order.
ConfirmRespond_ClearsOrderOnFailure(o, hasResult) ==
    /\ confirmReq # Null
    /\ confirmReq' = Null
    /\ isConfirming' = FALSE
    /\ IF o = "ok"
       THEN /\ orderDetails' = IF hasResult
                               THEN Some([id |-> confirmReq[1], costs |-> Costs1])
                               ELSE Null
            /\ isConfirmed' = TRUE
            /\ UNCHANGED error
       ELSE /\ ~hasResult
            /\ error' = "confirm"
            /\ orderDetails' = Null
            /\ UNCHANGED isConfirmed
    /\ UNCHANGED << mounted, sourceImage, isOrdered, isProcessing, prepVars, mockVars,
                    run, nruns, mk, checkout, draftUrl, pendingLeft >>
    /\ UNCHANGED svc

\* const result = await confirmOrder(id); setOrderDetails(result);
\* setIsConfirmed(true); or catch; finally.  The upstream answers with the
\* confirmed order (the id it was asked to confirm) or with no result.
ConfirmRespond(o, hasResult) ==
    /\ confirmReq # Null
    /\ confirmReq' = Null
    /\ isConfirming' = FALSE
    /\ IF o = "ok"
       THEN /\ orderDetails' = IF hasResult
                               THEN Some([id |-> confirmReq[1], costs |-> Costs1])
                               ELSE Null
            /\ isConfirmed' = TRUE
            /\ UNCHANGED error
       ELSE /\ ~hasResult
            /\ error' = "confirm"
            /\ UNCHANGED << orderDetails, isConfirmed >>
    /\ UNCHANGED << mounted, sourceImage, isOrdered, isProcessing, prepVars, mockVars,
                    run, nruns, mk, checkout, draftUrl, pendingLeft >>
    /\ UNCHANGED svc

\* ------------------------------------------------- requests and responses
\* enum ProductType.
ProductType == {"T-Shirt", "Coffee Mug", "Canvas Print", "Tote Bag"}

\* The lookup table of variant, product and placement per product type.
PRODUCT_VARIANTS ==
    [p \in ProductType |->
        CASE p = "T-Shirt"      -> [variantId |-> 4012, productId |-> 71, placement |-> "front"]
          [] p = "Coffee Mug"   -> [variantId |-> 1320, productId |-> 19, placement |-> "default"]
          [] p = "Canvas Print" -> [variantId |-> 5, productId |-> 3, placement |-> "default"]
          [] p = "Tote Bag"     -> [variantId |-> 10457, productId |-> 367, placement |-> "front"]]

\* const PRINTFUL_API = '/api/printful'.
PRINTFUL_API == "/api/printful"

\* A URL path: the prefix the dev server routes on, the route below it, and the
\* value interpolated at its end, if any.
Path(prefix, route, arg) == [prefix |-> prefix, route |-> route, arg |-> arg]

\* env.PRINTFUL_API_KEY and env.GEMINI_API_KEY of the dev server.
PRINTFUL_API_KEY == "printful-key"
GEMINI_API_KEY == "gemini-key"

\* The `define` section of the build: what of the server's environment is
\* compiled into the browser code.
ClientDefines ==
    [k \in {"process.env.API_KEY", "process.env.GEMINI_API_KEY"} |-> GEMINI_API_KEY]

\* Variant of jsonHeaders: the browser code sends the credential itself.
jsonHeaders_WithCredential ==
    [h \in {"Content-Type", "Authorization"} |->
        IF h = "Authorization" THEN << "Bearer", PRINTFUL_API_KEY >>
                               ELSE << "application/json" >>]

\* jsonHeaders(): header name -> the words of its value.
jsonHeaders == [h \in {"Content-Type"} |-> << "application/json" >>]

\* The operations of the client module; the two requests of
\* generatePrintfulMockups are told apart.
ProductOps == {"generatePrintfulMockups.create", "estimateShippingRates",
               "estimateOrderCosts", "createDraftOrder"}
ClientOps == ProductOps \cup {"checkPrintfulConnection", "hostImage",
                              "generatePrintfulMockups.poll", "confirmOrder"}

\* The request each operation builds; config is PRODUCT_VARIANTS[productType].
checkRequest ==
    [method |-> "GET", path |-> Path(PRINTFUL_API, "/products", Null),
     headers |-> jsonHeaders, body |-> Null]

hostImageRequest(base64Image) ==
    [method |-> "POST", path |-> Path("/api/host-image", "", Null),
     headers |-> jsonHeaders, body |-> Some([base64 |-> base64Image])]

createTaskRequest(imageUrl, config) ==
    [method |-> "POST",
     path |-> Path(PRINTFUL_API, "/mockup-generator/create-task/", Some(config.productId)),
     headers |-> jsonHeaders,
     body |-> Some([variant_ids |-> << config.variantId >>, format |-> "png",
                    files |-> << [placement |-> config.placement,
                                  image_url |-> imageUrl] >>])]

pollRequest(taskKey) ==
    [method |-> "GET",
     path |-> Path(PRINTFUL_API, "/mockup-generator/task?task_key=", Some(taskKey)),
     headers |-> jsonHeaders, body |-> Null]

\* Variant of createDraftOrderRequest: the variant of the T-shirt whatever the
\* product.
createDraftOrderRequest_FixedVariant(recipient, imageUrl, config) ==
    [method |-> "POST", path |-> Path(PRINTFUL_API, "/orders", Null),
     headers |-> jsonHeaders,
     body |-> Some([recipient |-> recipient,
                    items |-> << [variant_id |-> 4012, quantity |-> 1,
                                  files |-> << [url |-> imageUrl] >>] >>])]

createDraftOrderRequest(recipient, imageUrl, config) ==
    [method |-> "POST", path |-> Path(PRINTFUL_API, "/orders", Null),
     headers |-> jsonHeaders,
     body |-> Some([recipient |-> recipient,
                    items |-> << [variant_id |-> config.variantId, quantity |-> 1,
                                  files |-> << [url |-> imageUrl] >>] >>])]

confirmOrderRequest(orderId) ==
    [method |-> "POST", path |-> Path(PRINTFUL_API, "/orders/{id}/confirm", Some(orderId)),
     headers |-> jsonHeaders, body |-> Null]

estimateShippingRatesRequest(recipient, config) ==
    [method |-> "POST", path |-> Path(PRINTFUL_API, "/shipping/rates", Null),
     headers |-> jsonHeaders,
     body |-> Some([recipient |-> recipient,
                    items |-> << [variant_id |-> config.variantId, quantity |-> 1] >>])]

estimateOrderCostsRequest(recipient, imageUrl, config) ==
    [method |-> "POST", path |-> Path(PRINTFUL_API, "/orders/estimate-costs", Null),
     headers |-> jsonHeaders,
     body |-> Some([recipient |-> recipient,
                    items |-> << [variant_id |-> config.variantId, quantity |-> 1,
                                  files |-> << [url |-> imageUrl] >>] >>])]

\* The request of operation op for a product whose table entry is config; the
\* other arguments are fixed tokens.
RequestOf(op, config) ==
    CASE op = "checkPrintfulConnection" -> checkRequest
      [] op = "hostImage" -> hostImageRequest("data:image/png;base64,AAAA")
      [] op = "generatePrintfulMockups.create" -> createTaskRequest("https://h/art.png", config)
      [] op = "generatePrintfulMockups.poll" -> pollRequest("task-key")
      [] op = "createDraftOrder" ->
             createDraftOrderRequest("recipient", "https://h/art.png", config)
      [] op = "confirmOrder" -> confirmOrderRequest(1)
      [] op = "estimateShippingRates" -> estimateShippingRatesRequest("recipient", config)
      [] op = "estimateOrderCosts" ->
             estimateOrderCostsRequest("recipient", "https://h/art.png", config)

\* The dev server's proxy table has one entry, '/api/printful'.
ProxyMatches(req) == req.path.prefix = PRINTFUL_API

\* What the proxy sends to https://api.printful.com: the path without the
\* prefix (rewrite) and the Authorization header set (on 'proxyReq').
ProxyRequest(req) ==
    [req EXCEPT !.path = Path("", req.path.route, req.path.arg),
                !.headers = [h \in DOMAIN req.headers \cup {"Authorization"} |->
                                IF h = "Authorization"
                                THEN << "Bearer", PRINTFUL_API_KEY >>
                                ELSE req.headers[h]]]

\* A response body as response.json() sees it: whether it parses, and the
\* fields of the parsed object the client code reads (Null when absent).
Body(parses, result, err, url) ==
    [parses |-> parses, result |-> result, error |-> err, url |-> url]

NotJson == Body(FALSE, Null, Null, Null)
EmptyObject == Body(TRUE, Null, Null, Null)
Bodies ==
    { NotJson, EmptyObject,
      Body(TRUE, Some("Invalid variant"), Null, Null),
      Body(TRUE, Some("completed"), Null, Null),
      Body(TRUE, Some("failed"), Null, Null),
      Body(TRUE, Null, Some("Upload failed"), Null),
      Body(TRUE, Null, Null, Some("https://tmpfiles.org/dl/1/art.png")) }

\* The HTTP statuses the upstream answers with, and response.ok.
Statuses == {200, 400, 500}
Responses == [status : Statuses, body : Bodies]
Ok(resp) == resp.status \in 200..299

\* How a call of a client function ends: it returns a value (Null for
\* undefined), throws an Error object, or goes on with the poll loop.
Return(v) == [kind |-> "return", value |-> v, error |-> Null]
Throw(name, message) ==
    [kind |-> "throw", value |-> Null,
     error |-> Some([name |-> name, message |-> message])]
Continue == [kind |-> "continue", value |-> Null, error |-> Null]

\* a || fallback on an optional string.
OrElse(a, fallback) == IF a = Null \/ a = Some("") THEN fallback ELSE a[1]

\* const err = await response.json(); throw new Error(err[field] || fallback).
ThrowUpstream(body, field, fallback) ==
    IF ~body.parses
    THEN Throw("SyntaxError", "Unexpected token")
    ELSE Throw("Error", OrElse(body[field], fallback))

\* The poll status argument of PollStep for a response.
PollStatusOf(resp) ==
    IF ~Ok(resp) THEN "http_error"
    ELSE IF ~resp.body.parses \/ resp.body.result = Null THEN "bad_body"
    ELSE resp.body.result[1]

\* What each client function does with the response to its request.
ClientResult(op, resp) ==
    LET body == resp.body IN
    CASE op = "checkPrintfulConnection" ->
             Return(Some(checkPrintfulConnection(IF Ok(resp) THEN "ok" ELSE "http_error")))
      [] op = "hostImage" ->
             IF ~Ok(resp) THEN ThrowUpstream(body, "error", "Failed to host image")
             ELSE IF ~body.parses THEN Throw("SyntaxError", "Unexpected token")
             ELSE Return(body.url)
      [] op = "generatePrintfulMockups.create" ->
             IF ~Ok(resp) THEN ThrowUpstream(body, "result", "Failed to create mockup task")
             ELSE IF ~body.parses THEN Throw("SyntaxError", "Unexpected token")
             ELSE IF body.result = Null
                  THEN Throw("TypeError", "Cannot read properties of undefined")
             ELSE Continue
      [] op = "generatePrintfulMockups.poll" ->
             LET step == PollStep(PollStatusOf(resp)) IN
             CASE step = "return" -> Return(Some("mockup urls"))
               [] step = "throw" -> Throw("Error", "Mockup generation failed")
               [] step = "propagate" ->
                      IF ~body.parses THEN Throw("SyntaxError", "Unexpected token")
                      ELSE Throw("TypeError", "Cannot read properties of undefined")
               [] OTHER -> Continue
      [] op = "createDraftOrder" ->
             IF ~Ok(resp) THEN ThrowUpstream(body, "result", "Failed to create order")
             ELSE IF ~body.parses THEN Throw("SyntaxError", "Unexpected token")
             ELSE Return(body.result)
      [] op = "confirmOrder" ->
             IF ~Ok(resp) THEN ThrowUpstream(body, "result", "Failed to confirm order")
             ELSE IF ~body.parses THEN Throw("SyntaxError", "Unexpected token")
             ELSE Return(body.result)
      [] op = "estimateShippingRates" ->
             IF ~Ok(resp) THEN ThrowUpstream(body, "result", "Failed to estimate shipping")
             ELSE IF ~body.parses THEN Throw("SyntaxError", "Unexpected token")
             ELSE Return(Some(IF body.result = Null THEN "[]" ELSE "rates"))
      [] op = "estimateOrderCosts" ->
             IF ~Ok(resp) THEN ThrowUpstream(body, "result", "Failed to estimate costs")
             ELSE IF ~body.parses THEN Throw("SyntaxError", "Unexpected token")
             ELSE IF body.result = Null
                  THEN Throw("TypeError", "Cannot read properties of undefined")
             ELSE Return(Some("costs"))

\* --------------------------------------- one request through the client
\* The Ship step is not shown and nothing of it is under way.
ShipNotShown ==
    /\ mounted = FALSE
    /\ sourceImage = 0
    /\ InitCells
    /\ run = [r \in Runs |-> NoRun]
    /\ nruns = 0
    /\ mk = [r \in Runs |-> NoCall]
    /\ checkout = "idle"
    /\ draftUrl = 0
    /\ confirmReq = Null
    /\ pendingLeft = MaxPending

\* The client module is loaded, with its table, and has sent nothing.
InitClient ==
    /\ ShipNotShown
    /\ svc = [phase |-> "idle", table |-> PRODUCT_VARIANTS]

\* Browser code calls operation op (for product p, where the operation takes
\* one) and the request leaves the browser.
ClientCall(op, p) ==
    /\ svc.phase = "idle"
    /\ op \in ProductOps \/ p = "T-Shirt"
    /\ svc' = [phase |-> "sent", table |-> svc.table, op |-> op,
               product |-> IF op \in ProductOps THEN Some(p) ELSE Null,
               req |-> RequestOf(op, svc.table[p]),
               fwd |-> Null, resp |-> Null, result |-> Null]
    /\ UNCHANGED shipVars

\* The dev server proxies the request to the fulfillment API.
ProxyForward ==
    /\ svc.phase = "sent"
    /\ ProxyMatches(svc.req)
    /\ svc' = [svc EXCEPT !.phase = "forwarded", !.fwd = Some(ProxyRequest(svc.req))]
    /\ UNCHANGED shipVars

\* The response arrives and the client function runs to its end (or, for the
\* two requests of generatePrintfulMockups, to its next await).
ClientRespond(resp) ==
    /\ \/ svc.phase = "forwarded"
       \/ svc.phase = "sent" /\ ~ProxyMatches(svc.req)
    /\ svc' = [svc EXCEPT !.phase = "done", !.resp = Some(resp),
                          !.result = Some(ClientResult(svc.op, resp))]
    /\ UNCHANGED shipVars

NextClient ==
    \/ \E op \in ClientOps, p \in ProductType : ClientCall(op, p)
    \/ ProxyForward
    \/ \E resp \in Responses : ClientRespond(resp)

SpecClient == InitClient /\ [][NextClient]_vars

\* ------------------------------------------------ the /api/host-image endpoint
\* Text is a sequence of characters.
DataImage == << "d", "a", "t", "a", ":", "i", "m", "a", "g", "e", "/" >>
Base64Mark == << ";", "b", "a", "s", "e", "6", "4", "," >>

\* \w of a regular expression, over the characters used here.
WordChars == {"a", "b", "c", "d", "e", "g", "i", "j", "l", "m", "n", "o", "p", "s",
              "t", "v", "x", "A", "B", "O", "Q", "V", "4", "6", "9", "_"}
\* The characters of the base64 alphabets Buffer.from(_, 'base64') decodes.
Base64Chars == WordChars \cup {"+", "/", "-"}

\* The MIME subtypes of the images a user can load, and base64 payloads.
Subtypes == { << "p", "n", "g" >>, << "j", "p", "e", "g" >>,
              << "s", "v", "g", "+", "x", "m", "l" >>,
              << "x", "-", "i", "c", "o", "n" >> }
Payloads == { << "i", "V", "B", "O" >>, << "A", "A", "=", "=" >>, << "/", "9", "j", "/" >> }

\* A data URI of an image, and the image data the endpoint can be given.
DataUri(subtype, payload) == DataImage \o subtype \o Base64Mark \o payload
ImageData == Payloads \cup { DataUri(t, p) : t \in Subtypes, p \in Payloads }

\* base64.replace(/^data:image\/\w+;base64,/, ''): the match, if there is one,
\* is "data:image/", then one or more word characters, then ";base64,".
StripDataUri(s) ==
    LET n == Len(DataImage)
        m == Len(Base64Mark)
        Ends == { k \in (n + 1)..(Len(s) - m) :
                    /\ SubSeq(s, 1, n) = DataImage
                    /\ \A j \in (n + 1)..k : s[j] \in WordChars
                    /\ SubSeq(s, k + 1, k + m) = Base64Mark }
    IN  IF Ends = {} THEN s
        ELSE LET k == CHOOSE e \in Ends : TRUE IN SubSeq(s, k + m + 1, Len(s))

\* Buffer.from(raw, 'base64'): characters outside the alphabet are skipped and
\* decoding stops at the first padding character; the bytes are given as the
\* sequence of the 6-bit digits decoded.
UpToPadding(s) ==
    LET Pads == { k \in 1..Len(s) : s[k] = "=" }
    IN  IF Pads = {} THEN s
        ELSE SubSeq(s, 1, (CHOOSE k \in Pads : \A j \in Pads : k <= j) - 1)
IsBase64Char(c) == c \in Base64Chars
Base64Decode(s) == SelectSeq(UpToPadding(s), IsBase64Char)

\* The bodies a request to the endpoint can have: not JSON; JSON without a
\* base64 field, with an empty one, with a number; JSON with image data.
HostBody(parses, kind, text) == [parses |-> parses, kind |-> kind, text |-> text]
HostBodies ==
    { HostBody(FALSE, "absent", << >>), HostBody(TRUE, "absent", << >>),
      HostBody(TRUE, "string", << >>), HostBody(TRUE, "number", << >>) }
    \cup { HostBody(TRUE, "string", d) : d \in ImageData }

\* What https://tmpfiles.org/api/v1/upload can come back with: the fetch
\* rejects; a body that is not JSON; JSON with a status and perhaps data.url.
UploadAnswer(fetched, parses, status, url) ==
    [fetched |-> fetched, parses |-> parses, status |-> status, url |-> url]
UploadedUrl == << "https://", "tmpfiles.org/", "12345/art.png" >>
UploadAnswers ==
    { UploadAnswer(FALSE, FALSE, "none", Null),
      UploadAnswer(TRUE, FALSE, "none", Null),
      UploadAnswer(TRUE, TRUE, "error", Null),
      UploadAnswer(TRUE, TRUE, "success", Null),
      UploadAnswer(TRUE, TRUE, "success", Some(UploadedUrl)) }

\* url.replace('tmpfiles.org/', 'tmpfiles.org/dl/'): the first occurrence.
DirectLink(url) ==
    LET Hits == { k \in 1..Len(url) : url[k] = "tmpfiles.org/" }
    IN  IF Hits = {} THEN url
        ELSE LET k == CHOOSE h \in Hits : \A j \in Hits : h <= j
             IN  SubSeq(url, 1, k - 1) \o << "tmpfiles.org/dl/" >>
                     \o SubSeq(url, k + 1, Len(url))

\* A response of the endpoint.
HostError(status, message) ==
    [status |-> status, error |-> Some(message), url |-> Null]
HostSuccess(url) == [status |-> 200, error |-> Null, url |-> Some(url)]

\* The checks of the handler before the upload: the response they end with, or
\* Null when the upload goes ahead.
HostReject(method, body) ==
    IF method # "POST" THEN Some(HostError(405, "Method not allowed"))
    ELSE IF ~body.parses THEN Some(HostError(500, "Unexpected token"))
    ELSE IF body.kind = "absent" \/ (body.kind = "string" /\ body.text = << >>)
         THEN Some(HostError(500, "Missing base64 field"))
    ELSE IF body.kind # "string"
         THEN Some(HostError(500, "base64.replace is not a function"))
    ELSE Null

\* Variant of UploadResult: the status reported by the backend is not looked at.
UploadResult_IgnoresStatus(up) ==
    IF ~up.fetched THEN HostError(500, "fetch failed")
    ELSE IF ~up.parses THEN HostError(500, "Unexpected token")
    ELSE IF up.url = Null THEN HostSuccess(<< >>)
    ELSE HostSuccess(DirectLink(up.url[1]))

\* The rest of the handler, once the upload has been answered.
UploadResult(up) ==
    IF ~up.fetched THEN HostError(500, "fetch failed")
    ELSE IF ~up.parses THEN HostError(500, "Unexpected token")
    ELSE IF up.status # "success" THEN HostError(500, "Upload failed")
    ELSE IF up.url = Null THEN HostError(500, "Cannot read properties of undefined")
    ELSE HostSuccess(DirectLink(up.url[1]))

\* The endpoint is up and has no request.
InitHost ==
    /\ ShipNotShown
    /\ svc = [phase |-> "idle"]

\* A request arrives at /api/host-image.
HostReceive(method, body) ==
    /\ svc.phase = "idle"
    /\ svc' = [phase |-> "received", method |-> method, body |-> body,
               upload |-> Null, answer |-> Null, responses |-> << >>]
    /\ UNCHANGED shipVars

\* The handler runs up to its response or, past its checks, to the await of
\* the upload.
HostHandle ==
    LET rejected == HostReject(svc.method, svc.body) IN
    /\ svc.phase = "received"
    /\ IF rejected # Null
       THEN svc' = [svc EXCEPT !.phase = "responded",
                               !.responses = Append(@, rejected[1])]
       ELSE svc' = [svc EXCEPT !.phase = "uploading",
                               !.upload = Some(Base64Decode(StripDataUri(svc.body.text)))]
    /\ UNCHANGED shipVars

\* The upload is answered and the handler runs to its end.
UploadRespond(up) ==
    /\ svc.phase = "uploading"
    /\ svc' = [svc EXCEPT !.phase = "responded", !.answer = Some(up),
                          !.responses = Append(@, UploadResult(up))]
    /\ UNCHANGED shipVars

NextHost ==
    \/ \E method \in {"POST", "GET"}, body \in HostBodies : HostReceive(method, body)
    \/ HostHandle
    \/ \E up \in UploadAnswers : UploadRespond(up)

SpecHost == InitHost /\ [][NextHost]_vars

\* ------------------------------------------------------ the recipient form
\* COUNTRIES, by code: whether the country has states.  Two of the list.
COUNTRIES == [c \in {"US", "DE"} |-> [hasStates |-> (c = "US")]]

\* useState({ name: '', address: '', city: '', zip: '', state: '', country: 'US' })
InitialForm ==
    [name |-> "", address |-> "", city |-> "", zip |-> "", state |-> "", country |-> "US"]

\* The inputs of the form and what the user can put in each.
FormFields == {"name", "address", "city", "zip", "state", "country"}
FieldValues(field) ==
    CASE field = "country" -> DOMAIN COUNTRIES
      [] field = "state" -> {"", "NY"}
      [] OTHER -> {"", "x"}

\* const needsState = selectedCountry?.hasStates ?? false
needsState(form) == COUNTRIES[form.country].hasStates

\* The state input is rendered only when needsState; the others always.
InputShown(form, field) == field # "state" \/ needsState(form)

\* setFormData({ ...formData, [e.target.name]: e.target.value })
handleInputChange(form, field, value) == [form EXCEPT ![field] = value]

\* Every input that is rendered is `required`: the browser submits the form
\* only when none of them is empty.
FormValid(form) ==
    \A field \in FormFields : InputShown(form, field) => form[field] # ""

\* The recipient initPrintful builds for estimateShippingRates, and the one it
\* passes to estimateOrderCosts ({ ...recipient, name }).
EstimateRecipient(form) ==
    [address1 |-> form.address, city |-> form.city, country_code |-> form.country,
     state_code |-> form.state, zip |-> form.zip]
CostRecipient(form) ==
    [address1 |-> form.address, city |-> form.city, country_code |-> form.country,
     state_code |-> form.state, zip |-> form.zip, name |-> form.name]

\* The recipient handleCheckout builds; state_code is set only when
\* formData.state is not empty (Null: the field is absent).
DraftRecipient(form) ==
    [name |-> form.name, address1 |-> form.address, city |-> form.city,
     country_code |-> form.country, zip |-> form.zip,
     state_code |-> IF form.state # "" THEN Some(form.state) ELSE Null]

\* The form of an instance about to be shown, no request sent yet: the form
\* data, the form data each run of the effect closed over, and the recipients
\* of the requests sent.
InitForm ==
    /\ ShipNotShown
    /\ svc = [phase |-> "form", form |-> InitialForm,
              captured |-> [r \in Runs |-> Null],
              ship |-> [r \in Runs |-> Null],
              cost |-> [r \in Runs |-> Null],
              draft |-> Null]

\* The Ship step is shown; the effect closes over the form data of this render.
FormMount ==
    /\ MountStep(1)
    /\ svc' = [svc EXCEPT !.form = InitialForm,
                          !.captured[nruns + 1] = Some(InitialForm)]

\* New props: the effect runs again and closes over the form data as it is.
FormPropsChange ==
    /\ PropsChangeStep(1)
    /\ svc' = [svc EXCEPT !.captured[nruns + 1] = Some(svc.form)]

\* Variant of FormEdit: the effect also depends on formData, so an edit starts
\* a preparation.
FormEdit_RestartsPreparation(field, value) ==
    /\ mounted /\ ~isOrdered
    /\ InputShown(svc.form, field)
    /\ value # svc.form[field]
    /\ PropsChangeStep(sourceImage)
    /\ svc' = [svc EXCEPT !.form = handleInputChange(svc.form, field, value),
                          !.captured[nruns + 1] =
                              Some(handleInputChange(svc.form, field, value))]

\* The user changes one input of the form.
FormEdit(field, value) ==
    /\ mounted /\ ~isOrdered
    /\ InputShown(svc.form, field)
    /\ value # svc.form[field]
    /\ svc' = [svc EXCEPT !.form = handleInputChange(svc.form, field, value)]
    /\ UNCHANGED shipVars

\* hostImage is answered; on success the shipping estimate is requested with
\* the recipient built from the form data of the run's closure.
FormHostRespond(r, o) ==
    /\ HostRespondStep(r, o)
    /\ svc' = IF hostImageThrows(o) THEN svc
              ELSE [svc EXCEPT !.ship[r] = Some(EstimateRecipient(svc.captured[r][1]))]

\* The shipping estimate is answered; the cost estimate is requested.
FormShipRespond(r, o, body) ==
    /\ ShipRespondStep(r, o, body)
    /\ svc' = [svc EXCEPT !.cost[r] = Some(CostRecipient(svc.captured[r][1]))]

\* The user submits the form: the browser validates it, then handleCheckout
\* runs up to its first await.
FormSubmit ==
    /\ FormValid(svc.form)
    /\ SubmitStep
    /\ svc' = IF UseRealOrder
              THEN [svc EXCEPT !.draft = Some(DraftRecipient(svc.form))]
              ELSE svc

\* The form while preparations run: the step is shown, gets new props, the
\* user edits the form, and the awaited requests are answered.
NextForm ==
    \/ FormMount
    \/ FormPropsChange
    \/ \E field \in FormFields : \E value \in FieldValues(field) : FormEdit(field, value)
    \/ \E r \in Runs, o \in Outcomes : CheckRespond(r, o)
    \/ \E r \in Runs, o \in Outcomes : FormHostRespond(r, o)
    \/ \E r \in Runs, o \in Outcomes, b \in RateBodies : FormShipRespond(r, o, b)
    \/ \E r \in Runs, o \in Outcomes : CostRespond(r, o)

SpecForm == InitForm /\ [][NextForm]_vars

\* The form up to the order: the step is shown and prepares once, the user
\* edits the form and submits it, and the order request is answered.
NextCheckout ==
    \/ FormMount
    \/ \E field \in FormFields : \E value \in FieldValues(field) : FormEdit(field, value)
    \/ \E r \in Runs, o \in Outcomes : CheckRespond(r, o)
    \/ \E r \in Runs, o \in Outcomes : FormHostRespond(r, o)
    \/ \E r \in Runs, o \in Outcomes, b \in RateBodies : FormShipRespond(r, o, b)
    \/ \E r \in Runs, o \in Outcomes : CostRespond(r, o)
    \/ FormSubmit
    \/ \E o \in Outcomes, b \in DraftBodies : DraftRespond(o, b)
    \/ SimTimer

SpecCheckout == InitForm /\ [][NextCheckout]_vars

\* ---------------------------------------------------------- specification
Next ==
    \/ \E img \in 0..MaxImages : Mount(img)
    \/ Unmount
    \/ \E img \in 0..MaxImages : PropsChange(img)
    \/ \E r \in Runs, o \in Outcomes : CheckRespond(r, o)
    \/ \E r \in Runs, o \in Outcomes : HostRespond(r, o)
    \/ \E r \in Runs, o \in Outcomes, b \in RateBodies : ShipRespond(r, o, b)
    \/ \E r \in Runs, o \in Outcomes : CostRespond(r, o)
    \/ \E r \in Runs, o \in Outcomes : MockCreateRespond(r, o)
    \/ \E r \in Runs : MockTimer(r)
    \/ \E r \in Runs, st \in PollStatuses, b \in MockupBodies : MockPollRespond(r, st, b)
    \/ Submit
    \/ \E o \in Outcomes, b \in DraftBodies : DraftRespond(o, b)
    \/ SimTimer
    \/ ConfirmClick
    \/ \E o \in Outcomes, h \in BOOLEAN : ConfirmRespond(o, h)

Spec == Init /\ [][Next]_vars

\* generatePrintfulMockups on its own: one call, made outside any component,
\* against an upstream that may answer every poll of the loop non-terminally.
InitPoll ==
    /\ mounted = FALSE
    /\ sourceImage = 0
    /\ InitCells
    /\ run = [r \in Runs |-> NoRun]
    /\ nruns = 0
    /\ mk = [r \in Runs |-> IF r = 1
                             THEN [NoCall EXCEPT !.pc = "create", !.url = HostedUrl(1)]
                             ELSE NoCall]
    /\ checkout = "idle"
    /\ draftUrl = 0
    /\ confirmReq = Null
    /\ pendingLeft = maxAttempts
    /\ svc = NoSvc

NextPoll ==
    \/ \E r \in Runs, o \in Outcomes : MockCreateRespond(r, o)
    \/ \E r \in Runs : MockTimer(r)
    \/ \E r \in Runs, st \in PollStatuses, b \in MockupBodies : MockPollRespond(r, st, b)

SpecPoll == InitPoll /\ [][NextPoll]_vars

\* The mockup call of a Ship step that is shown: the state reached by
\* Mount(1), a successful connection check and a successful hostImage, with an
\* upstream that can keep the task pending for the whole loop.
InitMockups ==
    /\ mounted = TRUE
    /\ sourceImage = 1
    /\ isOrdered = FALSE /\ isConfirmed = FALSE /\ isProcessing = FALSE
    /\ isConfirming = FALSE /\ isPreparing = TRUE /\ isConnected = TRUE
    /\ publicImageUrl = HostedUrl(1) /\ error = "none" /\ orderDetails = Null
    /\ mockupUrls = << >> /\ isGeneratingMockups = TRUE
    /\ shippingRates = << >> /\ estimatedCosts = Null
    /\ run = [r \in Runs |-> IF r = 1
                              THEN [pc |-> "ship", live |-> TRUE, src |-> 1,
                                    probe |-> "ok", connected |-> "true",
                                    imageUrl |-> HostedUrl(1), hostFailed |-> FALSE]
                              ELSE NoRun]
    /\ nruns = 1
    /\ mk = [r \in Runs |-> IF r = 1
                             THEN [NoCall EXCEPT !.pc = "create", !.url = HostedUrl(1)]
                             ELSE NoCall]
    /\ checkout = "idle"
    /\ draftUrl = 0
    /\ confirmReq = Null
    /\ pendingLeft = maxAttempts
    /\ svc = NoSvc

\* The call runs while the user may leave the Ship step.
NextMockups ==
    \/ NextPoll
    \/ Unmount

\* Every request is answered and every timer fires: the steps of a call that is
\* under way are taken eventually.
MockupsFairness ==
    \A r \in Runs :
        /\ WF_vars(\E o \in Outcomes : MockCreateRespond(r, o))
        /\ WF_vars(MockTimer(r))
        /\ WF_vars(\E st \in PollStatuses, b \in MockupBodies : MockPollRespond(r, st, b))

SpecMockups == InitMockups /\ [][NextMockups]_vars /\ MockupsFairness

\* Every request of a preparation is answered or fails: the step that follows
\* each await of initPrintful is taken eventually.  Nothing is assumed about
\* the mockup call, the user or the order requests.
PreparationFairness ==
    \A r \in Runs :
        /\ WF_vars(\E o \in Outcomes : CheckRespond(r, o))
        /\ WF_vars(\E o \in Outcomes : HostRespond(r, o))
        /\ WF_vars(\E o \in Outcomes, b \in RateBodies : ShipRespond(r, o, b))
        /\ WF_vars(\E o \in Outcomes : CostRespond(r, o))

\* The Ship step as far as preparation goes: it is shown, left and given new
\* props, and its preparations and mockup calls run; no order is placed.
NextPreparation ==
    \/ \E img \in 0..MaxImages : Mount(img)
    \/ Unmount
    \/ \E img \in 0..MaxImages : PropsChange(img)
    \/ \E r \in Runs, o \in Outcomes : CheckRespond(r, o)
    \/ \E r \in Runs, o \in Outcomes : HostRespond(r, o)
    \/ \E r \in Runs, o \in Outcomes, b \in RateBodies : ShipRespond(r, o, b)
    \/ \E r \in Runs, o \in Outcomes : CostRespond(r, o)
    \/ \E r \in Runs, o \in Outcomes : MockCreateRespond(r, o)
    \/ \E r \in Runs : MockTimer(r)
    \/ \E r \in Runs, st \in PollStatuses, b \in MockupBodies : MockPollRespond(r, st, b)

SpecPreparation == Init /\ [][NextPreparation]_vars /\ PreparationFairness

\* A second shipping rate, and the lists /shipping/rates can answer with: no
\* result, an empty list, one rate, or both rates in either order.
Rate2 == [id |-> "EXPRESS", name |-> "Express", rate |-> 1299, currency |-> "USD",
          minDeliveryDays |-> 1, maxDeliveryDays |-> 2]
RateLists ==
    { Null, Some(<< >>), Some(<< Rate1 >>), Some(<< Rate2 >>),
      Some(<< Rate1, Rate2 >>), Some(<< Rate2, Rate1 >>) }

\* The order summary of a Ship step that is shown, left and shown again, with
\* the shipping estimate answered by any of the lists.
NextSummary ==
    \/ Mount(1)
    \/ Unmount
    \/ \E r \in Runs, o \in Outcomes : CheckRespond(r, o)
    \/ \E r \in Runs, o \in Outcomes : HostRespond(r, o)
    \/ \E r \in Runs, o \in Outcomes, b \in RateLists : ShipRespond(r, o, b)
    \/ \E r \in Runs, o \in Outcomes : CostRespond(r, o)

SpecSummary == Init /\ [][NextSummary]_vars

\* ------------------------------------------------------------------ App
\* The App component around the three steps: the gallery, the rendered
\* products, the two selections, the step shown, and the four localStorage
\* keys its persistence effects write. An artwork is its id; a product is its
\* id and the id of the artwork it was rendered from.
MaxArtworks == 2
MaxProducts == 2

LS_KEYS == { "GENERATED_IMAGES", "RENDERED_PRODUCTS",
             "SELECTED_IMAGE_ID", "SELECTED_PRODUCT_ID" }

STEPS == << "CREATE", "RENDER", "SHIP" >>

StepIndex(step) == CHOOSE n \in 1..Len(STEPS) : STEPS[n] = step

Product(id, imageId) == [id |-> id, originalImageId |-> imageId]

\* Array.prototype.find over the gallery, by id: the artwork, or 0 for none.
FindImage(images, id) ==
    IF \E n \in 1..Len(images) : images[n] = id THEN id ELSE 0

\* Array.prototype.find over the products, by id: the first match, or Null.
FindProduct(products, id) ==
    IF \E n \in 1..Len(products) : products[n].id = id
    THEN Some(products[CHOOSE n \in 1..Len(products) :
                  /\ products[n].id = id
                  /\ \A m \in 1..(n - 1) : products[m].id # id])
    ELSE Null

\* localStorage.getItem and JSON.parse: the value last written under the key,
\* or the fallback when nothing was written.
loadFromStorage(store, key, fallback) ==
    IF store[key] = Null THEN fallback ELSE store[key][1]

\* What each persistence effect writes under its key.
StoredValue(app, key) ==
    CASE key = "GENERATED_IMAGES" -> app.generatedImages
      [] key = "RENDERED_PRODUCTS" -> app.renderedProducts
      [] key = "SELECTED_IMAGE_ID" -> app.selectedImage
      [] key = "SELECTED_PRODUCT_ID" ->
            IF app.selectedProduct = Null THEN 0 ELSE app.selectedProduct[1].id

\* saveToStorage for the keys whose effect runs: the write of a key in
\* accepted replaces the stored value, a write that throws (quota exceeded) is
\* swallowed and leaves the stored value as it was.
saveToStorage(app, keys, accepted) ==
    [k \in LS_KEYS |->
        IF k \in keys /\ k \in accepted THEN Some(StoredValue(app, k)) ELSE app.store[k]]

\* The state after the effects of a render: the keys named are written.
Persisted(app, keys, accepted) ==
    [app EXCEPT !.store = saveToStorage(app, keys, accepted)]

\* The state App starts from with the given storage: the lazy useState
\* initialisers, before the mount effects.
Loaded(store) ==
    [phase |-> "app",
     showOnboarding |-> TRUE,
     currentStep |-> "CREATE",
     generatedImages |-> loadFromStorage(store, "GENERATED_IMAGES", << >>),
     renderedProducts |-> loadFromStorage(store, "RENDERED_PRODUCTS", << >>),
     selectedImage |-> FindImage(loadFromStorage(store, "GENERATED_IMAGES", << >>),
                                 loadFromStorage(store, "SELECTED_IMAGE_ID", 0)),
     selectedProduct |-> FindProduct(loadFromStorage(store, "RENDERED_PRODUCTS", << >>),
                                     loadFromStorage(store, "SELECTED_PRODUCT_ID", 0)),
     isGenerating |-> FALSE,
     rendering |-> 0,
     store |-> store]

EmptyStorage == [k \in LS_KEYS |-> Null]

\* What App hands to ShipStep as sourceImage: the artwork of the selected
\* product when the gallery holds it (1), else null (0).
SourceImageOf(app) ==
    IF app.selectedProduct = Null THEN 0
    ELSE IF FindImage(app.generatedImages, app.selectedProduct[1].originalImageId) # 0
         THEN 1 ELSE 0

\* First visit: nothing stored; the mount effects have written the four keys,
\* each write accepted or refused. Ids are timestamps: imagesMade and
\* productsMade count the ids handed out, in this page load or an earlier one,
\* and the next id is larger than all of them.
InitApp ==
    /\ ShipNotShown
    /\ \E accepted \in SUBSET LS_KEYS :
         svc = [app |-> Persisted(Loaded(EmptyStorage), LS_KEYS, accepted),
                imagesMade |-> 0, productsMade |-> 0, phase |-> "app"]

\* The Get Started button of the onboarding screen.
GetStarted ==
    /\ svc.app.showOnboarding
    /\ svc' = [svc EXCEPT !.app.showOnboarding = FALSE]
    /\ UNCHANGED shipVars

\* setCurrentStep: the step content is replaced; entering the Ship step mounts
\* ShipStep with the source image found, leaving it unmounts ShipStep.
SetCurrentStep(step) ==
    /\ ~svc.app.showOnboarding
    /\ step # svc.app.currentStep
    /\ svc' = [svc EXCEPT !.app.currentStep = step]
    /\ IF step = "SHIP" THEN MountStep(SourceImageOf(svc.app))
       ELSE IF svc.app.currentStep = "SHIP" THEN UnmountStep
       ELSE UNCHANGED shipVars

\* A step of the progress stepper is clicked.
isClickable(app, step) ==
    \/ StepIndex(step) = 1
    \/ StepIndex(step) = 2 /\ app.selectedImage # 0
    \/ StepIndex(step) = 3 /\ app.selectedProduct # Null

StepperClick(step) ==
    /\ isClickable(svc.app, step)
    /\ SetCurrentStep(step)

\* The Back and Next buttons of the footer.
BackClick ==
    /\ svc.app.currentStep # "CREATE"
    /\ SetCurrentStep(STEPS[StepIndex(svc.app.currentStep) - 1])

NextClick ==
    /\ ~(svc.app.currentStep = "CREATE" /\ svc.app.selectedImage = 0)
    /\ ~(svc.app.currentStep = "RENDER" /\ svc.app.selectedProduct = Null)
    /\ svc.app.currentStep # "SHIP"
    /\ SetCurrentStep(STEPS[StepIndex(svc.app.currentStep) + 1])

\* The keys written by the effects that follow handleImageGenerated and
\* handleProductRendered.
ImageKeys == { "GENERATED_IMAGES", "SELECTED_IMAGE_ID" }
ProductKeys == { "RENDERED_PRODUCTS", "SELECTED_PRODUCT_ID" }

\* handleImageGenerated: the artwork is prepended and selected; the effects of
\* the gallery and of the selected artwork write their keys.
handleImageGenerated(app, id, accepted) ==
    Persisted([app EXCEPT !.generatedImages = << id >> \o @, !.selectedImage = id],
              ImageKeys, accepted)

\* handleProductRendered: the product is prepended and selected; the effects of
\* the products and of the selected product write their keys.
handleProductRendered(app, product, accepted) ==
    Persisted([app EXCEPT !.renderedProducts = << product >> \o @,
                          !.selectedProduct = Some(product)],
              ProductKeys, accepted)

\* CreateStep.handleGenerate up to its first await.
GenerateClick ==
    /\ ~svc.app.showOnboarding
    /\ svc.app.currentStep = "CREATE"
    /\ ~svc.app.isGenerating
    /\ svc' = [svc EXCEPT !.app.isGenerating = TRUE]
    /\ UNCHANGED shipVars

\* generateImage answers: an artwork with a fresh id, or a failure shown in
\* the Create step. The Ship step's props do not change: the artwork found
\* for the selected product is the one found before.
GenerateRespond(ok, accepted) ==
    /\ svc.app.isGenerating
    /\ IF ok
       THEN /\ svc.imagesMade < MaxArtworks
            /\ svc' = [svc EXCEPT
                  !.imagesMade = @ + 1,
                  !.app = [handleImageGenerated(svc.app, svc.imagesMade + 1, accepted)
                              EXCEPT !.isGenerating = FALSE]]
       ELSE svc' = [svc EXCEPT !.app.isGenerating = FALSE]
    /\ UNCHANGED shipVars

\* CreateStep.handleFileUpload: the file is read and reader.onload hands the
\* data URL over as a new artwork.
FileUpload(accepted) ==
    /\ ~svc.app.showOnboarding
    /\ svc.app.currentStep = "CREATE"
    /\ svc.imagesMade < MaxArtworks
    /\ svc' = [svc EXCEPT
          !.imagesMade = @ + 1,
          !.app = handleImageGenerated(svc.app, svc.imagesMade + 1, accepted)]
    /\ UNCHANGED shipVars

\* handleImageSelect: an artwork of the gallery is clicked.
ImageSelect(id, accepted) ==
    /\ ~svc.app.showOnboarding
    /\ svc.app.currentStep = "CREATE"
    /\ FindImage(svc.app.generatedImages, id) # 0
    /\ id # svc.app.selectedImage
    /\ svc' = [svc EXCEPT !.app =
          Persisted([svc.app EXCEPT !.selectedImage = id],
                    { "SELECTED_IMAGE_ID" }, accepted)]
    /\ UNCHANGED shipVars

\* RenderStep.handleRender up to its await: the selected artwork is captured.
RenderClick ==
    /\ ~svc.app.showOnboarding
    /\ svc.app.currentStep = "RENDER"
    /\ svc.app.selectedImage # 0
    /\ svc.app.rendering = 0
    /\ svc' = [svc EXCEPT !.app.rendering = svc.app.selectedImage]
    /\ UNCHANGED shipVars

\* renderProductPreview answers: a product of the captured artwork, or a
\* failure. When the Ship step is shown its props change with the selection.
RenderRespond(ok, accepted) ==
    /\ svc.app.rendering # 0
    /\ IF ok
       THEN /\ svc.productsMade < MaxProducts
            /\ svc' = [svc EXCEPT
                  !.productsMade = @ + 1,
                  !.app = [handleProductRendered(svc.app,
                               Product(svc.productsMade + 1, svc.app.rendering), accepted)
                              EXCEPT !.rendering = 0]]
            /\ IF mounted THEN PropsChangeStep(SourceImageOf(svc'.app))
               ELSE UNCHANGED shipVars
       ELSE /\ svc' = [svc EXCEPT !.app.rendering = 0]
            /\ UNCHANGED shipVars

\* onSelectProduct: a product of the render history is clicked (the history is
\* shown only with a selected artwork).
SelectProduct(n, accepted) ==
    /\ ~svc.app.showOnboarding
    /\ svc.app.currentStep = "RENDER"
    /\ svc.app.selectedImage # 0
    /\ n \in 1..Len(svc.app.renderedProducts)
    /\ Some(svc.app.renderedProducts[n]) # svc.app.selectedProduct
    /\ svc' = [svc EXCEPT !.app =
          Persisted([svc.app EXCEPT !.selectedProduct = Some(svc.app.renderedProducts[n])],
                    { "SELECTED_PRODUCT_ID" }, accepted)]
    /\ UNCHANGED shipVars

\* The page is reloaded: the state is read back from storage, requests under
\* way are gone with the page, and the mount effects write the four keys.
Reload(accepted) ==
    /\ svc' = [svc EXCEPT !.app = Persisted(Loaded(svc.app.store), LS_KEYS, accepted)]
    /\ IF mounted THEN UnmountStep ELSE UNCHANGED shipVars

NextApp ==
    \/ GetStarted
    \/ \E step \in { STEPS[n] : n \in 1..Len(STEPS) } : StepperClick(step)
    \/ BackClick
    \/ NextClick
    \/ GenerateClick
    \/ \E ok \in BOOLEAN, accepted \in SUBSET ImageKeys : GenerateRespond(ok, accepted)
    \/ \E accepted \in SUBSET ImageKeys : FileUpload(accepted)
    \/ \E id \in 1..MaxArtworks, accepted \in SUBSET { "SELECTED_IMAGE_ID" } :
          ImageSelect(id, accepted)
    \/ RenderClick
    \/ \E ok \in BOOLEAN, accepted \in SUBSET ProductKeys : RenderRespond(ok, accepted)
    \/ \E n \in 1..MaxProducts, accepted \in SUBSET { "SELECTED_PRODUCT_ID" } :
          SelectProduct(n, accepted)
    \/ \E accepted \in SUBSET LS_KEYS : Reload(accepted)

SpecApp == InitApp /\ [][NextApp]_vars

\* ------------------------------------------------------------------ claims
\* The local order state of the mounted instance.
OrderState ==
    IF isConfirmed THEN "CONFIRMED" ELSE IF isOrdered THEN "DRAFT" ELSE "NONE"

OrderRank == IF isConfirmed THEN 2 ELSE IF isOrdered THEN 1 ELSE 0

\* A connection check of the mounted instance has returned true.
CheckedTrue == \E r \in Runs : run[r].live /\ run[r].connected = "true"

\* Every preparation of the mounted instance has ended on a check that
\* returned false.
AllOffline ==
    /\ \E r \in Runs : run[r].live
    /\ \A r \in Runs : run[r].live => run[r].connected = "false"

\* C1: a confirmOrder request exists only for the id of the draft order that is
\* stored, and only while the local order state is not CONFIRMED: the request
\* in flight carries a non-empty id, that of orderDetails, in state DRAFT.
C1_ConfirmOnlyStoredDraft ==
    confirmReq # Null =>
        /\ OrderState = "DRAFT"
        /\ orderDetails # Null
        /\ orderDetails[1].id # 0
        /\ confirmReq[1] = orderDetails[1].id
        /\ isConfirming

\* C1 witness: a confirmOrder request for the stored draft is in flight.
C1_Witness ==
    /\ confirmReq # Null
    /\ orderDetails # Null /\ confirmReq[1] = orderDetails[1].id
    /\ ~isConfirmed

\* C2: within one instance the order state never moves back, it becomes
\* CONFIRMED only from DRAFT and only in the turn in which a confirmOrder on the
\* id of the stored draft succeeds, and CONFIRMED implies ordered.
C2_OrderStateForward ==
    /\ [](isConfirmed => isOrdered)
    /\ [][(mounted /\ mounted') =>
            /\ OrderRank' >= OrderRank
            /\ (isConfirmed' /\ ~isConfirmed) =>
                   /\ OrderState = "DRAFT"
                   /\ orderDetails # Null
                   /\ confirmReq = Some(orderDetails[1].id)
                   /\ confirmReq' = Null
                   /\ error' = error]_vars

\* C2 witness: the order is CONFIRMED while a later preparation of the same
\* instance is still under way.
C2_Witness ==
    /\ isConfirmed /\ isOrdered
    /\ \E r \in Runs : run[r].live /\ run[r].pc \notin {"idle", "done"}

\* C3: a preparation whose check returned false has ended there, with no
\* hosting, mockup or estimate request behind it; while no check of the
\* instance has returned true there is no createDraftOrder or confirmOrder
\* request and no real order; and once every preparation of the instance has
\* ended that way the form can be submitted.
C3_OfflineSendsNothing ==
    /\ \A r \in Runs : run[r].connected = "false" =>
            /\ run[r].pc = "done"
            /\ run[r].imageUrl = 0 /\ ~run[r].hostFailed
            /\ mk[r] = NoCall
    /\ ~CheckedTrue =>
            /\ checkout # "draft" /\ draftUrl = 0 /\ confirmReq = Null
            /\ orderDetails = Null /\ ~isConfirmed
            /\ ~isConnected /\ publicImageUrl = 0
    /\ AllOffline =>
            /\ ~isPreparing
            /\ (~isOrdered /\ ~isProcessing) => SubmitEnabled

\* C3 witness: the only check returned false and the user has gone through
\* the simulated order.
C3_Witness ==
    /\ AllOffline /\ nruns = 1
    /\ isOrdered /\ error = "none"

\* What the upstream's transport can do to a poll short of answering it.
TransportFailures == {"network_error", "http_error", "bad_body"}

\* C4: one call of generatePrintfulMockups issues at most 30 poll requests; it
\* times out only after the 30th; and when the 30th poll is answered pending
\* the call has timed out, with no further poll.
C4_AtMostThirtyPolls ==
    \A r \in Runs :
        /\ mk[r].polls <= maxAttempts
        /\ mk[r].pc = "timeout" => mk[r].polls = maxAttempts
        /\ (mk[r].polls = maxAttempts /\ mk[r].pc # "poll" /\ mk[r].last = "pending")
              => mk[r].pc = "timeout"

\* C4 witness: the call timed out on a pending answer to its 30th poll.
C4_Witness ==
    mk[1].pc = "timeout" /\ mk[1].polls = 30 /\ mk[1].waits = 30 /\ mk[1].last = "pending"

\* C5: when a poll is answered completed the call returns in that turn, having
\* issued exactly the polls up to that one, and its result lists the mockup_url
\* of each mockup of that answer, in the answer's order; nothing follows.
C5_CompletedReturnsUrls ==
    /\ [](\A r \in Runs : mk[r].pc = "returned" =>
            LET mockups == IF mk[r].body = Null THEN << >> ELSE mk[r].body[1]
            IN  /\ mk[r].last = "completed"
                /\ mk[r].polls = mk[r].i + 1
                /\ Len(mk[r].result) = Len(mockups)
                /\ \A n \in 1..Len(mockups) : mk[r].result[n] = mockups[n].mockup_url)
    /\ [][\A r \in Runs :
            (mk[r].pc = "poll" /\ mk'[r] # mk[r] /\ mk'[r].last = "completed") =>
                /\ mk'[r].pc = "returned"
                /\ mk'[r].polls = mk[r].polls
                /\ mk'[r].waits = mk[r].waits]_vars
    /\ [][\A r \in Runs : mk[r].pc = "returned" => mk'[r] = mk[r]]_vars

\* C5 witness: completed on the fifth poll, two mockups returned in order.
C5_Witness ==
    /\ mk[1].pc = "returned" /\ mk[1].polls = 5
    /\ mk[1].result = << "https://h/mock2.png", "https://h/mock1.png" >>

\* C6 (as claimed): after a poll that failed at transport level the loop is
\* still running, or has ended at the 30-attempt cap.
C6_TransportFailureContinues ==
    \A r \in Runs : mk[r].last \in TransportFailures =>
        \/ mk[r].pc \in {"timer", "poll"}
        \/ mk[r].pc = "timeout" /\ mk[r].polls = maxAttempts

\* C7: a poll answered failed ends the call with an error in that turn: no
\* timer wait and no poll request is added, then or later.
C7_FailedRaisesAtOnce ==
    /\ [](\A r \in Runs : mk[r].last = "failed" => mk[r].pc = "failed")
    /\ [][\A r \in Runs :
            (mk[r].pc = "poll" /\ mk'[r] # mk[r] /\ mk'[r].last = "failed") =>
                /\ mk'[r].pc = "failed"
                /\ mk'[r].polls = mk[r].polls
                /\ mk'[r].waits = mk[r].waits]_vars
    /\ [][\A r \in Runs : mk[r].pc = "failed" => mk'[r] = mk[r]]_vars

\* C7 witness: the third poll was answered failed.
C7_Witness ==
    mk[1].pc = "failed" /\ mk[1].polls = 3 /\ mk[1].waits = 3

\* C8: a preparation has started its mockup call or an estimate only with its
\* own check answered true and the URL its hostImage returned; a
\* createDraftOrder request exists only with a check of the instance answered
\* true, and carries a URL that a hostImage of the instance returned.
C8_AfterCheckAndHosting ==
    /\ \A r \in Runs : (mk[r].pc # "none" \/ run[r].pc \in {"ship", "cost"}) =>
            /\ run[r].connected = "true"
            /\ run[r].imageUrl # 0 /\ run[r].imageUrl = HostedUrl(r)
    /\ checkout = "draft" =>
            /\ CheckedTrue
            /\ draftUrl # 0
            /\ \E r \in Runs : run[r].live /\ run[r].imageUrl = draftUrl

\* C8 witness: a draft request is in flight while the mockup poll is too.
C8_Witness ==
    /\ checkout = "draft" /\ draftUrl # 0
    /\ \E r \in Runs : run[r].live /\ mk[r].pc \in {"timer", "poll"}

\* C9 (as claimed): after hostImage failed in the only preparation of the
\* instance the connection state is offline, the error is shown until the form
\* is submitted, no mockup, draft or confirm request exists and the form can be
\* submitted.
C9_HostFailureGoesOffline ==
    \A r \in Runs : (nruns = 1 /\ run[r].live /\ run[r].hostFailed) =>
        /\ ~isConnected
        /\ mk[r].pc = "none"
        /\ checkout # "draft" /\ confirmReq = Null /\ orderDetails = Null
        /\ (~isOrdered /\ ~isProcessing) => (SubmitEnabled /\ error = "host")

\* C10 (as claimed): with the check and hosting resolved and an estimate still
\* in flight, the form can be submitted.
C10_ReadyWhileEstimating ==
    \A r \in Runs : (nruns = 1 /\ run[r].live /\ run[r].pc \in {"ship", "cost"}) =>
        ((~isOrdered /\ ~isProcessing) => SubmitEnabled)

\* The mockup call of run r has not settled yet.
MockupsPending(r) == mk[r].pc \in {"create", "timer", "poll"}

\* C11: while the mockup call of a preparation is still pending, nothing else
\* waits for it: its estimates can be answered, a preparation that has run to
\* its end has left PREPARING, and submitting, the draft answer, confirming and
\* the confirm answer can take place whenever they otherwise could.
C11_MockupsBlockNothing ==
    \A r \in Runs : MockupsPending(r) =>
        /\ run[r].pc = "ship" => ENABLED (\E o \in Outcomes, b \in RateBodies : ShipRespond(r, o, b))
        /\ run[r].pc = "cost" => ENABLED (\E o \in Outcomes : CostRespond(r, o))
        /\ (\A q \in Runs : run[q].live => run[q].pc = "done") => ~isPreparing
        /\ (mounted /\ ~isOrdered /\ ~isProcessing /\ ~isPreparing) => ENABLED Submit
        /\ checkout = "draft" => ENABLED (\E o \in Outcomes, b \in DraftBodies : DraftRespond(o, b))
        /\ (mounted /\ isOrdered /\ orderDetails # Null /\ ~isConfirmed /\ ~isConfirming)
               => ENABLED ConfirmClick
        /\ confirmReq # Null => ENABLED (\E o \in Outcomes, h \in BOOLEAN : ConfirmRespond(o, h))

\* C11 witness: the order is confirmed while the poll of the same, finished
\* preparation is still unanswered.
C11_Witness ==
    /\ isConfirmed
    /\ \E r \in Runs : run[r].live /\ run[r].pc = "done" /\ mk[r].pc = "poll"

\* C12: the turn that answers a createDraftOrder request ends processing and
\* either stores the answer's order and shows the ordered screen, setting no
\* error, or leaves the form on screen with no order stored and the
\* "Failed to create order" error, the submit button usable again as soon as
\* no preparation is under way; that error is only ever shown on the form.
C12_DraftFailureStaysReady ==
    /\ [](error = "draft" =>
            /\ mounted /\ ~isOrdered /\ orderDetails = Null
            /\ checkout = "idle" /\ ~isProcessing
            /\ ~isPreparing => SubmitEnabled)
    /\ [][(mounted' /\ checkout = "draft" /\ checkout' # "draft") =>
            /\ ~isProcessing'
            /\ \/ /\ isOrdered'
                  /\ orderDetails' \in DraftBodies
                  /\ error' = error
               \/ /\ ~isOrdered'
                  /\ orderDetails' = Null
                  /\ error' = "draft"
                  /\ ~isPreparing' => SubmitEnabled']_vars

\* C12 witness: a draft failed, and the form can be submitted again on the
\* real track.
C12_Witness ==
    /\ error = "draft" /\ SubmitEnabled
    /\ isConnected /\ publicImageUrl # 0

\* C13: the turn that answers a confirmOrder request ends confirming and
\* either confirms the order, setting no error, or leaves the stored draft as
\* it was, unconfirmed, with the "Failed to confirm order" error and the
\* Confirm button usable again for the same id; while that error stands the
\* draft screen with its button is what is shown.
C13_ConfirmFailureStaysDraft ==
    /\ [](error = "confirm" =>
            /\ mounted /\ isOrdered /\ ~isConfirmed /\ ~isConfirming
            /\ orderDetails # Null /\ orderDetails[1].id # 0
            /\ confirmReq = Null
            /\ ENABLED ConfirmClick)
    /\ [][(mounted' /\ confirmReq # Null /\ confirmReq' = Null) =>
            /\ ~isConfirming'
            /\ \/ /\ isConfirmed'
                  /\ error' = error
               \/ /\ ~isConfirmed' /\ isOrdered'
                  /\ orderDetails' = orderDetails
                  /\ orderDetails' # Null /\ orderDetails'[1].id = confirmReq[1]
                  /\ error' = "confirm"
                  /\ ConfirmEnabled']_vars

\* C13 witness: a confirmation failed and the draft is still there to confirm.
C13_Witness ==
    /\ error = "confirm" /\ ConfirmEnabled
    /\ orderDetails # Null /\ orderDetails[1].id # 0

\* C14: a createDraftOrder request comes into being only in the turn of a user
\* submission, a confirmOrder request only in the turn of a user click on
\* Confirm; while one is pending its button is disabled, so there is one
\* request per user action; and the turn that reports a failure leaves no such
\* request behind.
C14_NoAutomaticRetry ==
    /\ [](checkout = "draft" => mounted /\ isProcessing /\ ~isOrdered)
    /\ [](confirmReq # Null => mounted /\ isConfirming /\ ~isConfirmed)
    /\ [][(checkout' = "draft" /\ checkout # "draft") =>
            /\ mounted /\ ~isOrdered /\ ~isProcessing /\ ~isPreparing
            /\ isProcessing' /\ error' = "none"]_vars
    /\ [][(confirmReq' # Null /\ confirmReq = Null) =>
            /\ mounted /\ isOrdered /\ ~isConfirmed /\ ~isConfirming
            /\ isConfirming' /\ error' = "none"]_vars
    /\ [][((error' = "draft" /\ error # "draft") \/ (error' = "confirm" /\ error # "confirm")) =>
            /\ checkout' = "idle" /\ draftUrl' = 0 /\ confirmReq' = Null
            /\ ~isProcessing' /\ ~isConfirming']_vars

\* C14 witness: a confirmation has failed after an earlier draft request was
\* answered; nothing is pending until the user acts.
C14_Witness ==
    /\ error = "confirm" /\ checkout = "idle" /\ confirmReq = Null
    /\ ~isProcessing /\ ~isConfirming

\* Run r belongs to an instance that has been unmounted.
Disposed(r) == run[r].pc # "idle" /\ ~run[r].live

\* C15 (as claimed): once the instance of a preparation is unmounted, its
\* mockup call issues no further poll request, and no turn of that call
\* changes the mockup state shown.
C15_DisposedTaskStops ==
    [][\A r \in Runs : Disposed(r) =>
            /\ mk'[r].polls = mk[r].polls
            /\ mk'[r] # mk[r] => UNCHANGED mockVars]_vars

\* The ways a mockup call can end without a result.
MockupFailures == {"rejected", "failed", "timeout", "threw"}

C17_EstimateFailureSwallowed ==
    /\ [][\A r \in Runs : (run[r].pc = "ship" /\ run'[r].pc # "ship") =>
            /\ run'[r].pc = "cost"
            /\ UNCHANGED << error, publicImageUrl, isConnected, isPreparing >>]_vars
    /\ [][\A r \in Runs : (run[r].pc = "cost" /\ run'[r].pc # "cost") =>
            /\ run'[r].pc = "done"
            /\ UNCHANGED << error, publicImageUrl, isConnected >>
            /\ run[r].live => ~isPreparing']_vars
    /\ [](\A r \in Runs :
            (run[r].live /\ run[r].pc = "done" /\ run[r].imageUrl # 0
                /\ \A q \in Runs \ {r} : ~run[q].live) =>
                /\ ~isPreparing /\ isConnected /\ publicImageUrl = run[r].imageUrl
                /\ error \notin {"offline", "host"}
                /\ (~isOrdered /\ ~isProcessing) => SubmitEnabled)
    /\ [](estimatedCosts = Null =>
            /\ displayTotal = << "-" >>
            /\ displayShipping = IF shippingRates = << >>
                                 THEN << "$", 499 >>
                                 ELSE << "$", shippingRates[1].rate >>)

\* C17 witness: the only preparation has ended with its hosted URL and without
\* a cost estimate or a shipping rate; the form can be submitted and shows the
\* fallbacks.
C17_Witness ==
    /\ nruns = 1 /\ run[1].live /\ run[1].pc = "done" /\ run[1].imageUrl # 0
    /\ estimatedCosts = Null /\ shippingRates = << >>
    /\ SubmitEnabled /\ error = "none" /\ publicImageUrl # 0
    /\ displayShipping = << "$", 499 >>

\* C18: a preparation has at most the one URL its hostImage call returned,
\* its mockup call was given that URL, and its estimates start only with it;
\* the URL stored in the instance and the URL carried by a createDraftOrder
\* request are the URL of one preparation of the instance, the same one its
\* mockup call was given.
C18_HostedUrlReused ==
    /\ \A r \in Runs :
        /\ run[r].imageUrl # 0 => run[r].imageUrl = HostedUrl(r) /\ ~run[r].hostFailed
        /\ run[r].pc \in {"idle", "check", "host"} => run[r].imageUrl = 0 /\ mk[r].pc = "none"
        /\ run[r].pc \in {"ship", "cost"} => run[r].imageUrl # 0
        /\ mk[r].pc # "none" => mk[r].url # 0 /\ mk[r].url = run[r].imageUrl
    /\ publicImageUrl # 0 =>
        \E r \in Runs : run[r].live /\ publicImageUrl = run[r].imageUrl
    /\ checkout = "draft" =>
        \E r \in Runs : /\ run[r].live
                        /\ draftUrl # 0
                        /\ draftUrl = run[r].imageUrl
                        /\ draftUrl = mk[r].url

\* C18 witness: a draft request carries the URL of the finished preparation
\* while that preparation's mockup call, given the same URL, is polling.
C18_Witness ==
    /\ checkout = "draft"
    /\ \E r \in Runs : /\ run[r].live /\ run[r].pc = "done"
                       /\ draftUrl = run[r].imageUrl
                       /\ mk[r].pc = "poll" /\ mk[r].url = draftUrl

\* The ordered screen of a simulated order: ordered, nothing stored.
SimulatedOrder == mounted /\ isOrdered /\ orderDetails = Null /\ ~isConfirmed

\* C19: while the simulated delay runs the form is processing and no order or
\* order request exists; the turn that ends the delay shows the ordered
\* screen with no order stored; and from the ordered screen without a stored
\* order the instance never stores an order, never becomes CONFIRMED, and
\* never sends a createDraftOrder or confirmOrder request.
C19_SimulatedStaysSimulated ==
    /\ [](checkout = "sim" =>
            /\ mounted /\ isProcessing /\ ~isOrdered /\ ~isConfirmed
            /\ orderDetails = Null /\ draftUrl = 0 /\ confirmReq = Null)
    /\ [][(mounted' /\ checkout = "sim" /\ checkout' # "sim") =>
            /\ SimulatedOrder'
            /\ ~isProcessing'
            /\ checkout' = "idle" /\ draftUrl' = 0 /\ confirmReq' = Null]_vars
    /\ [][(SimulatedOrder /\ mounted') =>
            /\ SimulatedOrder'
            /\ checkout' = "idle" /\ draftUrl' = 0 /\ confirmReq' = Null]_vars
    /\ [](SimulatedOrder => ~ConfirmEnabled /\ ~SubmitEnabled)

\* C19 witness: the only check returned false, the user submitted, the delay
\* has passed and the ordered screen shows no stored order.
C19_Witness ==
    /\ SimulatedOrder /\ checkout = "idle"
    /\ nruns = 1 /\ run[1].connected = "false" /\ ~isProcessing

\* C20: whatever the probe comes back with, checkPrintfulConnection hands its
\* caller a boolean, true exactly when the probe was answered with a success
\* status; and while a preparation waits for it nothing else has been
\* requested on its behalf.
C20_CheckNeverRaises ==
    \A r \in Runs :
        /\ run[r].pc \in {"idle", "check"} =>
              run[r].probe = "none" /\ run[r].connected = "unknown"
        /\ run[r].pc = "check" =>
              run[r].imageUrl = 0 /\ ~run[r].hostFailed /\ mk[r] = NoCall
        /\ run[r].pc \notin {"idle", "check"} =>
              /\ run[r].probe \in Outcomes
              /\ run[r].connected \in {"true", "false"}
              /\ run[r].connected = "true" <=> run[r].probe = "ok"

\* C20 witness: one probe was rejected by the network and gave false, another
\* was answered with a success status and gave true.
C20_Witness ==
    /\ run[1].probe = "network_error" /\ run[1].connected = "false"
    /\ run[2].probe = "ok" /\ run[2].connected = "true"

\* C25: in the poll loop a completed 2-second timer wait separates any two
\* consecutive poll requests of one task: every step that issues a poll request
\* is the completion of a timer wait, so the number of poll requests issued
\* never exceeds the number of completed waits.
C25_WaitBetweenPolls ==
    /\ [](\A r \in Runs : mk[r].polls <= mk[r].waits)
    /\ [][\A r \in Runs :
             mk'[r].polls # mk[r].polls =>
                 /\ mk[r].pc = "timer"
                 /\ mk'[r].polls = mk[r].polls + 1
                 /\ mk'[r].waits = mk[r].waits + 1]_vars

\* The third poll request of a task is in flight after three completed waits.
C25_Witness ==
    \E r \in Runs : mk[r].pc = "poll" /\ mk[r].polls = 3 /\ mk[r].waits = 3

\* C27: when the upstream rejects the create-task request, the call ends with
\* the error and the poll loop is never entered: no timer wait and no poll
\* request has been or will be issued for that call.
C27_RejectedTaskNeverPolls ==
    /\ [](\A r \in Runs : mk[r].pc = "rejected" =>
              mk[r].polls = 0 /\ mk[r].waits = 0 /\ mk[r].i = 0)
    /\ [][\A r \in Runs : mk[r].pc = "rejected" => mk'[r] = mk[r]]_vars

\* A create-task request was rejected.
C27_Witness ==
    \E r \in Runs : mk[r].pc = "rejected" /\ mk[r].polls = 0 /\ mk[r].waits = 0

\* C30: preparation starts only with a source artwork (the rendered product is
\* always present while the Ship step is shown): a preparation exists only for
\* an artwork, with no artwork nothing is sent, and within a preparation no
\* request follows before the connection check has been answered.
C30_PreparationNeedsArtwork ==
    /\ \A r \in Runs :
         /\ run[r].pc # "idle" => run[r].src # 0
         /\ run[r].pc \notin {"idle", "check"} => run[r].probe # "none"
         /\ mk[r].pc # "none" => run[r].probe # "none"
         /\ r > nruns => run[r].pc = "idle" /\ mk[r].pc = "none"
    /\ (mounted /\ sourceImage = 0 /\ nruns = 0) =>
           \A r \in Runs : run[r].pc = "idle" /\ mk[r].pc = "none"

\* A preparation has passed its connection check and asks for hosting; the
\* artwork has since gone missing and no second preparation was started.
C30_Witness ==
    /\ mounted /\ sourceImage = 0
    /\ nruns = 1 /\ run[1].pc = "host" /\ run[1].probe = "ok"
    /\ run[2].pc = "idle"

\* The mockup call of run r has ended: URLs returned; a failure raised (the task
\* failed, the create-task request was rejected, or an answer could not be
\* read); or the timeout raised.
MockupsEnded(r) == mk[r].pc \in {"returned", "failed", "rejected", "threw", "timeout"}

\* C26: when every request is answered and every timer fires, each call of
\* generatePrintfulMockups eventually ends, in one outcome that never changes
\* afterwards; the step that ends the call of a shown Ship step clears its
\* mockup-generating indicator whatever the outcome, and the indicator is
\* eventually off.
C26_MockupsEndAndIndicatorClears ==
    /\ \A r \in Runs : MockupsPending(r) ~> MockupsEnded(r)
    /\ isGeneratingMockups ~> ~isGeneratingMockups
    /\ [][\A r \in Runs :
             /\ MockupsEnded(r) => mk'[r] = mk[r]
             /\ (MockupsPending(r) /\ MockupsEnded(r)' /\ run[r].live) =>
                    ~isGeneratingMockups']_vars

\* The loop ran to its timeout in a Ship step that is still shown, and the
\* indicator is off.
C26_Witness ==
    /\ mounted /\ run[1].live
    /\ mk[1].pc = "timeout" /\ mk[1].polls = maxAttempts
    /\ ~isGeneratingMockups

\* The operations that talk to the fulfillment API and are said to raise.
RaisingOps == ClientOps \ {"checkPrintfulConnection", "hostImage"}

\* C21 (as claimed): every fulfillment operation that receives a non-success
\* HTTP response raises an error that carries the upstream message and the HTTP
\* status, and returns no result.
C21_NonSuccessRaisesWithStatus ==
    (svc.phase = "done" /\ svc.op \in RaisingOps /\ ~Ok(svc.resp[1])) =>
        LET res == svc.result[1] IN
        /\ res.kind = "throw"
        /\ res.value = Null
        /\ res.error[1].message = OrElse(svc.resp[1].body.result, res.error[1].message)
        /\ "httpStatus" \in DOMAIN res.error[1]
        /\ res.error[1].httpStatus = svc.resp[1].status

\* C22 (as claimed): hostImage raises, and returns nothing, whenever the
\* hosting endpoint answers with a non-success status or with a malformed body,
\* a success response without a url included.
C22_HostImageRaisesOnBadAnswer ==
    (/\ svc.phase = "done" /\ svc.op = "hostImage"
     /\ \/ ~Ok(svc.resp[1])
        \/ ~svc.resp[1].body.parses
        \/ svc.resp[1].body.url = Null) =>
        svc.result[1].kind = "throw"

\* C24: every request built for a product carries the variantId of that
\* product's table entry (the create-task request also its productId, in the
\* path, and its placement), the proxy forwards that body as it is, and the
\* table the client works from stays the fixed table.
C24_RequestsUseTableEntry ==
    /\ svc.table = PRODUCT_VARIANTS
    /\ (svc.phase # "idle" /\ svc.op \in ProductOps) =>
         LET entry == PRODUCT_VARIANTS[svc.product[1]]
             sent == svc.req.body[1]
         IN
         /\ IF svc.op = "generatePrintfulMockups.create"
            THEN /\ svc.req.path.arg = Some(entry.productId)
                 /\ sent.variant_ids = << entry.variantId >>
                 /\ Len(sent.files) = 1
                 /\ sent.files[1].placement = entry.placement
            ELSE /\ Len(sent.items) = 1
                 /\ sent.items[1].variant_id = entry.variantId
         /\ svc.fwd # Null => svc.fwd[1].body = svc.req.body

\* A draft order for a tote bag was sent and answered.
C24_Witness ==
    /\ svc.phase = "done" /\ svc.op = "createDraftOrder"
    /\ svc.product = Some("Tote Bag")
    /\ svc.req.body[1].items[1].variant_id = 10457

\* The credential is among the words of some header of the request.
CarriesCredential(req) ==
    \E h \in DOMAIN req.headers :
        \E n \in 1..Len(req.headers[h]) : req.headers[h][n] = PRINTFUL_API_KEY

\* C29: the credential is not compiled into the browser code, no request that
\* leaves the browser carries it or an Authorization header, and every request
\* that reaches the fulfillment API went through the proxy, which set the
\* Authorization header on it; the hosting request is never given one.
C29_CredentialStaysOnServer ==
    /\ \A k \in DOMAIN ClientDefines : ClientDefines[k] # PRINTFUL_API_KEY
    /\ svc.phase # "idle" =>
         /\ ~CarriesCredential(svc.req)
         /\ "Authorization" \notin DOMAIN svc.req.headers
         /\ svc.fwd # Null =>
              /\ ProxyMatches(svc.req)
              /\ svc.fwd[1].headers["Authorization"] = << "Bearer", PRINTFUL_API_KEY >>
         /\ (svc.phase = "done" /\ ProxyMatches(svc.req)) => svc.fwd # Null
         /\ (svc.phase = "done" /\ ~ProxyMatches(svc.req)) => svc.fwd = Null

\* A confirm request left the browser without credential, was forwarded with
\* it, and was answered.
C29_Witness ==
    /\ svc.phase = "done" /\ svc.op = "confirmOrder"
    /\ ~CarriesCredential(svc.req)
    /\ svc.fwd # Null /\ CarriesCredential(svc.fwd[1])

\* The base64 payload of image data: what follows the first comma of a data
\* URI, or the whole of raw base64.
PayloadOf(s) ==
    LET Commas == { k \in 1..Len(s) : s[k] = "," }
    IN  IF Len(s) >= 5 /\ SubSeq(s, 1, 5) = SubSeq(DataImage, 1, 5) /\ Commas # {}
        THEN SubSeq(s, (CHOOSE k \in Commas : \A j \in Commas : k <= j) + 1, Len(s))
        ELSE s

\* C23 (as claimed): for a data URI of any image MIME type, or raw base64, the
\* bytes uploaded to the hosting backend are the decoding of the base64 payload
\* alone.
C23_UploadsPayloadBytes ==
    (svc.phase \in {"uploading", "responded"} /\ svc.upload # Null) =>
        svc.upload[1] = Base64Decode(PayloadOf(svc.body.text))

\* The base64 field of a request body is missing (absent or empty).
MissingBase64(body) ==
    body.parses /\ (body.kind = "absent" \/ (body.kind = "string" /\ body.text = << >>))

\* The two forms of a response of the endpoint.
SuccessForm(r) == r.status = 200 /\ r.url # Null /\ r.error = Null
ErrorForm(r) == r.status \notin 200..299 /\ r.error # Null /\ r.url = Null

\* C28: a request to /api/host-image is answered once, with a success status
\* and a url or with a non-2xx status and an error message; a method other than
\* POST, an unparsable body, a missing base64 field and an upload the backend
\* does not report as a success are answered in the error form; and for a
\* method other than POST or a missing base64 field no upload is made.
C28_HostEndpointAnswersOnce ==
    /\ svc.phase = "received" => ENABLED HostHandle
    /\ svc.phase \in {"received", "uploading"} => svc.responses = << >>
    /\ svc.phase = "responded" =>
         /\ Len(svc.responses) = 1
         /\ SuccessForm(svc.responses[1]) \/ ErrorForm(svc.responses[1])
         /\ (\/ svc.method # "POST"
             \/ ~svc.body.parses
             \/ MissingBase64(svc.body)
             \/ (svc.answer # Null /\ svc.answer[1].status # "success")) =>
                ErrorForm(svc.responses[1])
         /\ SuccessForm(svc.responses[1]) =>
                /\ svc.upload # Null
                /\ svc.answer[1].status = "success"
                /\ svc.responses[1].url[1] = DirectLink(svc.answer[1].url[1])
    /\ (svc.phase # "idle" /\ (svc.method # "POST" \/ MissingBase64(svc.body))) =>
           svc.upload = Null

\* The backend answered the upload with a status other than success and the
\* endpoint answered 500 with a message.
C28_Witness ==
    /\ svc.phase = "responded"
    /\ svc.upload # Null /\ svc.answer # Null /\ svc.answer[1].status = "error"
    /\ svc.responses = << HostError(500, "Upload failed") >>

\* Run r of the shown instance is still preparing.
Preparing(r) == run[r].live /\ run[r].pc \in {"check", "host", "ship", "cost"}

\* C31 (as claimed): a createDraftOrder request is sent only when none is in
\* flight, when no preparation of the instance is still running and when no
\* draft order is stored; and an instance stores a draft order at most once.
C31_OneDraftAfterPreparation ==
    /\ [][(checkout' = "draft" /\ checkout # "draft") =>
              /\ ~isProcessing
              /\ orderDetails = Null /\ ~isOrdered
              /\ \A r \in Runs : ~Preparing(r)]_vars
    /\ [][(checkout = "draft" /\ mounted') => checkout' # "sim"]_vars
    /\ [][(isOrdered /\ mounted') => (checkout' = "idle" /\ isOrdered')]_vars

\* C32: while a confirmOrder request is in flight the instance shows the
\* confirming state and a further confirm action is not possible, so no second
\* request is sent for the order.
C32_OneConfirmInFlight ==
    confirmReq # Null => (mounted /\ isConfirming /\ ~ENABLED ConfirmClick)

\* A confirmation is pending and the button is disabled.
C32_Witness ==
    /\ confirmReq # Null /\ isConfirming
    /\ orderDetails # Null /\ confirmReq[1] = orderDetails[1].id
    /\ ~ENABLED ConfirmClick

\* C33 (as claimed): when the effect has started a preparation again, the
\* preparing flag stays set while the newest preparation of the shown instance
\* is running, and the stored hosted URL is the one the newest preparation was
\* given for the current artwork.
C33_NewestPreparationWins ==
    (mounted /\ nruns > 0 /\ run[nruns].live) =>
        /\ Preparing(nruns) => isPreparing
        /\ publicImageUrl # 0 =>
               (publicImageUrl = HostedUrl(nruns) /\ run[nruns].src = sourceImage)

\* C34: when every request of the preparation is answered or fails, a
\* preparation that is running ends and the preparing flag is cleared, whatever
\* the answers were and whether or not the mockup call has ended; with the flag
\* cleared the form can be submitted unless a submission is under way.
C34_PreparationEnds ==
    /\ isPreparing ~> ~isPreparing
    /\ \A r \in Runs : Preparing(r) ~> ~Preparing(r)
    /\ []((mounted /\ ~isPreparing /\ ~isOrdered /\ ~isProcessing) => ENABLED Submit)

\* The preparation has ended with both estimates failed, the flag is cleared
\* and the form can be submitted while the mockup call is still polling.
C34_Witness ==
    /\ mounted /\ ~isPreparing /\ ENABLED Submit
    /\ run[1].live /\ run[1].pc = "done" /\ mk[1].pc = "poll"
    /\ shippingRates = << >> /\ estimatedCosts = Null

\* C35 (as claimed): the recipient sent to createDraftOrder has a state code
\* only if its country has subdivisions, and for a country with subdivisions
\* it always has one.
C35_StateCodeFollowsCountry ==
    svc.draft # Null =>
        LET recipient == svc.draft[1] IN
        /\ recipient.state_code # Null => COUNTRIES[recipient.country_code].hasStates
        /\ COUNTRIES[recipient.country_code].hasStates => recipient.state_code # Null

\* C36: a preparation sends at most one shipping-estimate and at most one
\* cost-estimate request, each with the recipient built from the form data as
\* it was when that preparation began; and an edit of the form changes the
\* form data only: no request is sent and no state cell of the step changes.
C36_EstimatesUseFormAtStart ==
    /\ [](\A r \in Runs :
            /\ svc.ship[r] # Null =>
                 /\ svc.captured[r] # Null
                 /\ svc.ship[r][1].country_code = svc.captured[r][1].country
                 /\ svc.ship[r][1].state_code = svc.captured[r][1].state
                 /\ svc.ship[r][1].address1 = svc.captured[r][1].address
                 /\ svc.ship[r][1].city = svc.captured[r][1].city
                 /\ svc.ship[r][1].zip = svc.captured[r][1].zip
            /\ svc.cost[r] # Null =>
                 /\ svc.ship[r] # Null
                 /\ svc.cost[r][1].name = svc.captured[r][1].name
                 /\ svc.cost[r][1].country_code = svc.captured[r][1].country
                 /\ svc.cost[r][1].state_code = svc.captured[r][1].state)
    /\ [][\A r \in Runs :
             /\ svc'.captured[r] # svc.captured[r] => (r = nruns' /\ nruns' = nruns + 1)
             /\ svc'.ship[r] # svc.ship[r] => (svc.ship[r] = Null /\ run[r].pc = "host")
             /\ svc'.cost[r] # svc.cost[r] => (svc.cost[r] = Null /\ run[r].pc = "ship")]_vars
    /\ [][(mounted /\ svc'.form # svc.form) =>
             /\ UNCHANGED shipVars
             /\ svc'.captured = svc.captured
             /\ svc'.ship = svc.ship /\ svc'.cost = svc.cost]_vars

\* The second preparation began with a form the user had edited and has sent
\* both estimates with it; the form has been edited again since, and the first
\* preparation sent its estimates with the empty form.
C36_Witness ==
    /\ svc.captured[2] # Null /\ svc.captured[2] # Some(InitialForm)
    /\ svc.cost[2] # Null
    /\ svc.cost[2][1].name = svc.captured[2][1].name
    /\ svc.form # svc.captured[2][1]
    /\ svc.ship[1] = Some(EstimateRecipient(InitialForm))

\* C37 (as claimed): when no cost estimate is stored and the shipping estimate
\* returned rates, the rate displayed (amount, name, delivery days) is one of
\* the returned rates and none of them is cheaper.
C37_CheapestRateDisplayed ==
    (mounted /\ estimatedCosts = Null /\ Len(shippingRates) > 0) =>
        /\ cheapestRate # Null
        /\ \E n \in 1..Len(shippingRates) : shippingRates[n] = cheapestRate[1]
        /\ \A n \in 1..Len(shippingRates) : cheapestRate[1].rate <= shippingRates[n].rate
        /\ displayShipping = << "$", cheapestRate[1].rate >>

\* C38 (as claimed): after any sequence of generate, upload, render, select,
\* persist and reload operations, silent write failures included, the artwork
\* of the selected product is in the gallery, and a Ship step that is shown
\* has a source image and a preparation started for it.
C38_SourceArtworkFound ==
    /\ svc.app.selectedProduct # Null =>
           FindImage(svc.app.generatedImages,
                     svc.app.selectedProduct[1].originalImageId) # 0
    /\ mounted =>
           /\ svc.app.selectedProduct # Null
           /\ sourceImage # 0
           /\ \E r \in 1..nruns : run[r].live /\ run[r].src = sourceImage

====
